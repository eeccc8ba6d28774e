----------------------- MODULE TechnicalPortfolioProofs -----------------------
(***************************************************************************)
(* Theorems of TechnicalPortfolio.  The invariant (Inv) keeps four kinds of *)
(* facts together, because each bar needs all of them:                      *)
(*   - every id of an order is dated, and none is of a bar to come, so that *)
(*     what a bar submits has a fresh id and is filled and not repeated;    *)
(*   - a pending action fits the positions it waits for, instrument by      *)
(*     instrument, and positions and pending entries together fit the slots;*)
(*   - a position has its plan, whose levels no processed bar had crossed;  *)
(*   - the window of recent entries, the switch and the cooldown are what   *)
(*     the ids and the days say they are.                                   *)
(* There is one lemma per action.  On top of it, Books says that the ledger  *)
(* and the cash agree: each record is of a known entry, the records of an   *)
(* entry and of an exit are counted, and the cash is the sum that the        *)
(* property states.                                                         *)
(***************************************************************************)
EXTENDS TechnicalPortfolio, PaperTradingProofs

-----------------------------------------------------------------------------
(* Sequences of pending actions *)

Buyers(p) == {i \in Instruments : \E a \in ToSet(p) : a.instrument = i /\ a.action = "BUY"}

\* Two lists of actions without an instrument in common.
LEMMA PendingJoined ==
  ASSUME NEW p \in Seq(Pending), NEW q \in Seq(Pending), Distinct(p), Distinct(q),
         \A a \in ToSet(p), b \in ToSet(q) : a.instrument # b.instrument
  PROVE  p \o q \in Seq(Pending) /\ Distinct(p \o q) /\ ToSet(p \o q) = ToSet(p) \cup ToSet(q)
BY DistinctJoined

\* The pending BUYs, counted by their instruments.
LEMMA BuysAreBuyers ==
  ASSUME NEW p \in Seq(Pending), Distinct(p)
  PROVE  /\ Cardinality({n \in DOMAIN p : p[n].action = "BUY"}) = Cardinality(Buyers(p))
         /\ IsFiniteSet(Buyers(p))
<1> DEFINE N == {n \in DOMAIN p : p[n].action = "BUY"}
           f == [n \in N |-> p[n].instrument]
<1>1. /\ \A n \in DOMAIN p : p[n] \in Pending /\ p[n].instrument \in Instruments
      /\ \A x : x \in ToSet(p) <=> \E n \in DOMAIN p : x = p[n]
      /\ DOMAIN p = 1 .. Len(p) /\ Len(p) \in Nat
  <2>1. /\ \A n \in DOMAIN p : p[n] \in Pending
        /\ \A x : x \in ToSet(p) <=> \E n \in DOMAIN p : x = p[n]
        /\ DOMAIN p = 1 .. Len(p) /\ Len(p) \in Nat
    BY SeqDomain
  <2>. QED
    BY <2>1 DEF Pending
<1>2. f \in [N -> Buyers(p)]
  BY <1>1 DEF Buyers
<1>3. \A a, b \in N : f[a] = f[b] => a = b
  BY DEF Distinct
<1>4. \A t \in Buyers(p) : \E s \in N : f[s] = t
  BY <1>1 DEF Buyers
<1>5. f \in Bijection(N, Buyers(p))
  BY <1>2, <1>3, <1>4 DEF Bijection, Injection, Surjection, IsInjective
<1>6. IsFiniteSet(N)
  <2>1. IsFiniteSet(1 .. Len(p))
    BY <1>1, FS_Interval
  <2>. QED
    BY <1>1, <2>1, FS_Subset
<1> HIDE DEF N, f
<1>7. ExistsBijection(N, Buyers(p))
  BY <1>5 DEF ExistsBijection
<1>. QED
  BY <1>6, <1>7, FS_Bijection DEF N

-----------------------------------------------------------------------------
(* Prices *)

LEMMA BarTypes ==
  ASSUME NEW b \in Bars
  PROVE  /\ b.open \in Nat \ {0} /\ b.low \in Nat \ {0} /\ b.high \in Nat \ {0}
         /\ b.close \in Nat \ {0} /\ b.atr \in Nat \ {0}
         /\ b.low <= b.open /\ b.low <= b.close /\ b # NoBar
<1>1. b.trend # "none"
  BY DataAssumption DEF Trends
<1>2. b # NoBar
  BY <1>1 DEF NoBar
<1>. QED
  BY <1>2, DataAssumption

LEMMA BuyPriceType ==
  ASSUME NEW b \in Bars
  PROVE  BuyPrice(b) \in Nat \ {0}
<1>1. b.open \in Nat \ {0} /\ SlippagePct \in Nat
  BY BarTypes, RatesAssumption
<1>. QED
  BY <1>1, MarkedUp DEF BuyPrice

LEMMA SellPriceType ==
  ASSUME NEW b \in Bars, NEW trigger \in Nat, 100 * b.low <= trigger
  PROVE  SellPrice(trigger) \in Nat \ {0}
<1>1. 100 * b.low \in Nat /\ 100 - SlippagePct \in Nat
  BY BarTypes, RatesAssumption
<1>2. /\ SellPrice(100 * b.low) \in Nat /\ SellPrice(trigger) \in Nat
      /\ SellPrice(100 * b.low) <= SellPrice(trigger)
  <2>1. PICK p \in Nat, q \in Nat : /\ p = (100 * b.low) * (100 - SlippagePct)
                                    /\ q = trigger * (100 - SlippagePct)
    BY <1>1
  <2>2. p <= q
    BY <1>1, <2>1, Times
  <2>3. p \div 10000 <= q \div 10000 /\ p \div 10000 \in Nat /\ q \div 10000 \in Nat
    BY <2>2, DivMonotone
  <2>. QED
    BY <2>1, <2>3 DEF SellPrice
<1>. QED
  BY <1>2, WholePricesAssumption

LEMMA FillTypes ==
  ASSUME NEW b \in Bars
  PROVE  /\ SellPrice(100 * b.open) \in Nat \ {0}
         /\ SellPrice(100 * b.close) \in Nat \ {0}
         /\ \A level \in Nat : Crossed(b, level) => StopFill(b, level) \in Nat \ {0}
         /\ \A level \in Nat : TargetFill(b, level) \in Nat \ {0}
<1>1. /\ 100 * b.open \in Nat /\ 100 * b.low \in Nat /\ 100 * b.close \in Nat
      /\ 100 * b.low <= 100 * b.open /\ 100 * b.low <= 100 * b.close
  BY BarTypes
<1>2. ASSUME NEW level \in Nat, Crossed(b, level) PROVE StopFill(b, level) \in Nat \ {0}
  <2>1. Lower(100 * b.open, level) \in Nat /\ 100 * b.low <= Lower(100 * b.open, level)
    BY <1>1, <1>2 DEF Lower, Crossed
  <2>. QED
    BY <2>1, SellPriceType DEF StopFill
<1>3. ASSUME NEW level \in Nat PROVE TargetFill(b, level) \in Nat \ {0}
  <2>1. Higher(100 * b.open, level) \in Nat /\ 100 * b.low <= Higher(100 * b.open, level)
    BY <1>1 DEF Higher
  <2>. QED
    BY <2>1, SellPriceType DEF TargetFill
<1>4. SellPrice(100 * b.open) \in Nat \ {0} /\ SellPrice(100 * b.close) \in Nat \ {0}
  BY <1>1, SellPriceType
<1>. QED
  BY <1>2, <1>3, <1>4

-----------------------------------------------------------------------------
(* The account *)

LEMMA IdTypes ==
  /\ \A d \in Days, i \in Instruments, k \in Kinds : <<d, i, k>> \in Ids
  /\ MaxDays \in Nat \ {0} /\ \A d \in Days : d \in Nat \ {0} /\ d \in 0 .. MaxDays
  /\ \A d \in 0 .. MaxDays : d # 0 => d \in Days
BY IdsAssumption, ConfigAssumption DEF Days

-----------------------------------------------------------------------------
(* Closing positions *)

\* The trade records of the positions that are closed.
RecordOf(exits, price, kind) ==
  [i \in exits |-> [instrument |-> i, entry |-> entries[i].day,
                    pnl |-> (price[i] - entries[i].price) * entries[i].qty, reason |-> kind[i]]]

\* What the exits may be: positions, at prices, under ids of their own.
Closable(exits, price, kind) ==
  /\ exits \subseteq Held
  /\ \A i \in exits : /\ price[i] \in Nat \ {0} /\ kind[i] \in ExitKinds
                      /\ ~Known(account, <<day, i, kind[i]>>)
                      /\ entries[i] # NoEntry

ClosingIds(exits, kind) == {<<day, i, kind[i]>> : i \in exits}

LEMMA ClosedAccount ==
  ASSUME TypeOK, day # 0, NEW exits, NEW price, NEW kind, Closable(exits, price, kind),
         Closed(exits, price, kind)
  PROVE  /\ SoldAll(account, account', exits, [i \in exits |-> <<day, i, kind[i]>>], price)
         /\ OnlyPlaced(account, account', ClosingIds(exits, kind))
         /\ account' \in Account /\ Held' = Held \ exits
         /\ \A i \in Instruments \ exits : account'.held[i] = account.held[i]
<1> DEFINE id == [i \in exits |-> <<day, i, kind[i]>>]
<1>1. account \in Account /\ day \in Days /\ exits \in SUBSET Instruments
  BY IdTypes DEF TypeOK, Closable, Held
<1>2. \A i \in exits : /\ id[i] = <<day, i, kind[i]>> /\ id[i] \in Ids /\ ~Known(account, id[i])
                       /\ account.held[i] > 0 /\ price[i] \in Nat \ {0} /\ account.held[i] \in Nat \ {0}
  <2>1. ExitKinds \subseteq Kinds
    BY DEF ExitKinds, Kinds
  <2>. QED
    BY <1>1, <2>1, IdTypes, AccountTypes DEF Closable, Held
<1>3. Sellable(account, exits, id, price)
  BY <1>2 DEF Sellable
<1>4. account' = SellEach(account, risk, exits, id, price)
  BY DEF Closed
<1> HIDE DEF id
<1>5. SoldAll(account, account', exits, id, price)
  BY <1>1, <1>3, <1>4, SoldEach
<1>6. account' \in Account /\ \A i \in Instruments : account'.held[i] = IF i \in exits THEN 0 ELSE account.held[i]
  BY <1>5 DEF SoldAll
<1>7. OnlyPlaced(account, account', ClosingIds(exits, kind))
  <2>1. ASSUME NEW i \in exits PROVE Known(account', id[i])
    <3>1. account'.orders[id[i]] = Made("SELL", i, account.held[i], price[i], "FILLED")
      BY <1>5 DEF SoldAll
    <3>2. Made("SELL", i, account.held[i], price[i], "FILLED") # NoOrder
      BY <1>1, <1>2, MadeIsAnOrder
    <3>. QED
      BY <3>1, <3>2 DEF Known
  <2>2. \A x \in Ids : (\A i \in exits : id[i] # x) => account'.orders[x] = account.orders[x]
    BY <1>5 DEF SoldAll
  <2>. QED
    BY <1>2, <2>1, <2>2 DEF OnlyPlaced, Known, ClosingIds
<1>8. Held' = Held \ exits
  BY <1>1, <1>6, AccountTypes DEF Held
<1>. QED
  BY <1>1, <1>5, <1>6, <1>7, <1>8 DEF id

\* A list that grew by what an order of E says.
ListedAs(s, t, E, f) ==
  \E order \in SetToSeqs(E) : t = s \o [n \in DOMAIN order |-> f[order[n]]]

LEMMA ClosedBooks ==
  ASSUME TypeOK, day # 0, NEW exits, NEW price, NEW kind, Closable(exits, price, kind),
         Closed(exits, price, kind)
  PROVE  /\ paid' \in [Instruments -> Nat] /\ realized' \in Int /\ records' \in Seq(Record)
         /\ entries' \in [Instruments -> Entry \cup {NoEntry}]
         /\ \A i \in exits : RecordOf(exits, price, kind)[i] \in Record
         /\ ListedAs(records, records', exits, RecordOf(exits, price, kind))
<1>1. /\ exits \in SUBSET Instruments /\ IsFiniteSet(exits) /\ account \in Account
      /\ paid \in [Instruments -> Nat] /\ realized \in Int /\ records \in Seq(Record)
      /\ entries \in [Instruments -> Entry \cup {NoEntry}]
  BY HoldingsAssumption, FS_Subset DEF TypeOK, Closable, Held
<1>2. \A i \in exits : /\ entries[i] \in Entry /\ price[i] \in Nat /\ kind[i] \in ExitKinds
                       /\ account.held[i] \in Nat /\ paid[i] \in Nat
  BY <1>1, AccountTypes DEF Closable
<1>3. paid' \in [Instruments -> Nat]
  BY <1>1 DEF Closed
<1>4. entries' \in [Instruments -> Entry \cup {NoEntry}]
  BY <1>1 DEF Closed, Released
<1>5. realized' \in Int
  <2> DEFINE gain == [i \in exits |-> Gain(i, price[i])]
  <2>1. ASSUME NEW i \in exits PROVE gain[i] \in Int
    <3>1. PICK p \in Nat, q \in Nat : p = price[i] /\ q = account.held[i]
      BY <1>2
    <3>2. p * q \in Nat
      BY <3>1
    <3>. QED
      BY <1>2, <3>1, <3>2 DEF Gain
  <2>2. realized' = realized + SumFunctionOnSet(gain, exits)
    BY DEF Closed, SumFunction
  <2> HIDE DEF gain
  <2>3. SumFunctionOnSet(gain, exits) \in Int
    BY <1>1, <2>1, SumInt
  <2>. QED
    BY <1>1, <2>2, <2>3
<1>6. ASSUME NEW i \in exits PROVE RecordOf(exits, price, kind)[i] \in Record
  <2>1. entries[i].day \in Days /\ entries[i].price \in Nat /\ entries[i].qty \in Nat
    BY <1>2 DEF Entry
  <2>2. (price[i] - entries[i].price) * entries[i].qty \in Int
    <3>1. PICK p \in Int, q \in Int : p = price[i] - entries[i].price /\ q = entries[i].qty
      BY <1>2, <2>1
    <3>2. p * q \in Int
      OBVIOUS
    <3>. QED
      BY <3>1, <3>2
  <2>3. i \in Instruments
    BY <1>1
  <2>. QED
    BY <1>2, <2>1, <2>2, <2>3 DEF RecordOf, Record
<1>7. PICK order \in SetToSeqs(exits) :
        records' = records \o [n \in DOMAIN order |-> RecordOf(exits, price, kind)[order[n]]]
  <2>1. PICK order \in SetToSeqs(exits) :
          records' = records \o [n \in DOMAIN order |->
            [instrument |-> order[n], entry |-> entries[order[n]].day,
             pnl |-> (price[order[n]] - entries[order[n]].price) * entries[order[n]].qty,
             reason |-> kind[order[n]]]]
    BY DEF Closed
  <2>2. \A n \in DOMAIN order : order[n] \in exits
    BY <1>1, OrderOf
  <2>. QED
    BY <2>1, <2>2 DEF RecordOf
<1>8. records' \in Seq(Record)
  <2>1. PICK q : q = [n \in DOMAIN order |-> RecordOf(exits, price, kind)[order[n]]]
    OBVIOUS
  <2>2. q \in Seq(Record)
    <3>1. PICK f : f = RecordOf(exits, price, kind)
      OBVIOUS
    <3>2. \A i \in exits : f[i] \in Record
      BY <1>6, <3>1
    <3>3. q = [n \in DOMAIN order |-> f[order[n]]]
      BY <2>1, <3>1
    <3>. QED
      BY <1>1, <3>2, <3>3, Listed
  <2>. QED
    BY <1>1, <1>7, <2>1, <2>2, ConcatProperties
<1>9. ListedAs(records, records', exits, RecordOf(exits, price, kind))
  BY <1>7 DEF ListedAs
<1>. QED
  BY <1>3, <1>4, <1>5, <1>6, <1>8, <1>9

-----------------------------------------------------------------------------
(* The inductive invariant *)

\* An id, dated and named for what it did.
DatedIds == \A d \in Days, i \in Instruments, k \in Kinds : Known(account, <<d, i, k>>) => d <= day

\* What a step of this phase may place was not placed before.
FreshIds ==
  /\ phase # "open" => day # 0
  /\ phase = "execute" =>
       /\ \A i \in Instruments, k \in {"stop", "target"} : ~Known(account, <<day, i, k>>)
       /\ \A a \in ToSet(pending) : a.instrument \in fresh =>
            \A k \in {"buy", "sell", "pyramid"} : ~Known(account, <<day, a.instrument, k>>)
  /\ phase # "done" => \A d \in Days, i \in Instruments : ~Known(account, <<d, i, "final">>)

\* Positions have quotes and entries; until the end, plans.
PositionsAreKept ==
  /\ \A i \in Held \cup fresh : bars[i] # NoBar
  /\ \A i \in Instruments : i \in Held <=> entries[i] # NoEntry
  /\ phase # "done" => \A i \in Instruments : i \in Held <=> plans[i] # NoPlan

\* What is pending fits, and what is decided in a scan waits for another bar.
PendingFits ==
  /\ Distinct(pending)
  /\ \A a \in ToSet(pending) : a.action = "BUY" => 0 < a.stop /\ a.stop < 100 * a.close
  /\ phase # "done" => \A a \in ToSet(pending) : a.action = "BUY" <=> a.instrument \notin Held
  /\ phase # "done" => \A a \in ToSet(pending) :
       a.action = "PYRAMID" => plans[a.instrument].additions < MaxAdditions
  /\ phase = "scan" => \A a \in ToSet(pending) : a.instrument \notin fresh

SlotsAreKept == Cardinality(Held) + Cardinality(Buyers(pending)) <= Slots

\* The entries of the window, those still waiting included.
WindowIsKept ==
  MaxNewEntries # 0 =>
    /\ recent \subseteq EntryDays
    /\ \A o \in EntryDays : o[1] >= day - EntryPeriod => o \in recent
    /\ Buyers(pending) # {} =>
         Cardinality(InWindow) + Cardinality(Buyers(pending)) <= MaxNewEntries

\* While the switch is on nothing was bought since it was tripped.
SwitchIsDated ==
  /\ tripped # 0 => risk.kill /\ Cooldown # 0
  /\ risk.kill /\ Cooldown # 0 => tripped # 0 /\ tripped <= day
  /\ tripped # 0 => \A d \in Days, i \in Instruments, k \in {"buy", "pyramid"} :
                      Known(account, <<d, i, k>>) => d < tripped

\* What an active entry was recorded as.
EntriesAreKnown ==
  \A i \in Instruments : entries[i] # NoEntry =>
    /\ Known(account, <<entries[i].day, i, "buy">>)
    /\ (\A d \in Days : ~Known(account, <<d, i, "pyramid">>)) =>
         account.held[i] = entries[i].qty /\ paid[i] = entries[i].qty * entries[i].price

\* Only positions have a cost.
CostsAreHeld == \A i \in Instruments : i \notin Held => paid[i] = 0

Inv == TypeOK /\ DatedIds /\ FreshIds /\ PositionsAreKept /\ PendingFits /\ SlotsAreKept
       /\ WindowIsKept /\ EntriesArePaced /\ LevelsAreExecuted /\ SwitchIsDated
       /\ EntriesAreKnown /\ CostsAreHeld

-----------------------------------------------------------------------------
(* What every step that closes positions keeps *)

LEMMA HeldTypes ==
  ASSUME TypeOK
  PROVE  /\ Held \subseteq Instruments /\ IsFiniteSet(Held) /\ Cardinality(Held) \in Nat
         /\ \A i \in Instruments : i \in Held <=> account.held[i] \in Nat \ {0}
         /\ \A i \in Instruments : account.held[i] \in Nat
<1>1. Held \subseteq Instruments /\ \A i \in Instruments : account.held[i] \in Nat
  BY AccountTypes DEF TypeOK, Held
<1>2. IsFiniteSet(Held)
  BY <1>1, HoldingsAssumption, FS_Subset
<1>. QED
  BY <1>1, <1>2, FS_CardinalityType DEF Held

LEMMA BuyersTypes ==
  ASSUME NEW p \in Seq(Pending)
  PROVE  Buyers(p) \subseteq Instruments /\ IsFiniteSet(Buyers(p)) /\ Cardinality(Buyers(p)) \in Nat
<1>1. Buyers(p) \subseteq Instruments
  BY DEF Buyers
<1>2. IsFiniteSet(Buyers(p))
  BY <1>1, HoldingsAssumption, FS_Subset
<1>. QED
  BY <1>1, <1>2, FS_CardinalityType

LEMMA ClosedIds ==
  ASSUME TypeOK, day # 0, NEW exits, NEW price, NEW kind, Closable(exits, price, kind),
         Closed(exits, price, kind)
  PROVE  /\ \A d \in Days, i \in Instruments, k \in Kinds :
              Known(account', <<d, i, k>>) <=>
                Known(account, <<d, i, k>>) \/ (d = day /\ i \in exits /\ k = kind[i])
         /\ \A d \in Days, i \in Instruments, k \in {"buy", "pyramid"} :
              Known(account', <<d, i, k>>) <=> Known(account, <<d, i, k>>)
         /\ EntryDays' = EntryDays
<1>1. OnlyPlaced(account, account', ClosingIds(exits, kind))
  BY ClosedAccount
<1>2. ASSUME NEW d \in Days, NEW i \in Instruments, NEW k \in Kinds
      PROVE  Known(account', <<d, i, k>>) <=>
               Known(account, <<d, i, k>>) \/ (d = day /\ i \in exits /\ k = kind[i])
  <2>1. <<d, i, k>> \in Ids
    BY IdTypes
  <2>2. <<d, i, k>> \in ClosingIds(exits, kind) <=> d = day /\ i \in exits /\ k = kind[i]
    BY DEF ClosingIds
  <2>3. Known(account', <<d, i, k>>) <=>
          Known(account, <<d, i, k>>) \/ <<d, i, k>> \in ClosingIds(exits, kind)
    BY <1>1, <2>1 DEF OnlyPlaced
  <2>. QED
    BY <2>2, <2>3
<1>3. ASSUME NEW d \in Days, NEW i \in Instruments, NEW k \in {"buy", "pyramid"}
      PROVE  Known(account', <<d, i, k>>) <=> Known(account, <<d, i, k>>)
  <2>1. k \in Kinds /\ \A j \in exits : kind[j] # k
    BY DEF Closable, ExitKinds, Kinds
  <2>. QED
    BY <1>2, <2>1
<1>4. EntryDays' = EntryDays
  <2>1. \A o \in Days \X Instruments : Known(account', <<o[1], o[2], "buy">>) <=> Known(account, <<o[1], o[2], "buy">>)
    BY <1>3
  <2>. QED
    BY <2>1 DEF EntryDays
<1>. QED
  BY <1>2, <1>3, <1>4

LEMMA ClosingKeeps ==
  ASSUME Inv, day # 0, NEW exits, NEW price, NEW kind, Closable(exits, price, kind),
         Closed(exits, price, kind), UNCHANGED <<day, risk, tripped, recent>>,
         Buyers(pending') = Buyers(pending)
  PROVE  /\ DatedIds' /\ SwitchIsDated' /\ EntriesAreKnown' /\ CostsAreHeld'
         /\ SlotsAreKept' /\ WindowIsKept' /\ EntriesArePaced'
         /\ \A i \in Instruments : i \in Held' <=> entries'[i] # NoEntry
<1>1. /\ \A d \in Days, i \in Instruments, k \in Kinds :
           Known(account', <<d, i, k>>) <=>
             Known(account, <<d, i, k>>) \/ (d = day /\ i \in exits /\ k = kind[i])
      /\ \A d \in Days, i \in Instruments, k \in {"buy", "pyramid"} :
           Known(account', <<d, i, k>>) <=> Known(account, <<d, i, k>>)
      /\ EntryDays' = EntryDays
  BY ClosedIds DEF Inv
<1>2. /\ Held' = Held \ exits /\ \A i \in Instruments \ exits : account'.held[i] = account.held[i]
      /\ account' \in Account
  BY ClosedAccount DEF Inv
<1>3. entries \in [Instruments -> Entry \cup {NoEntry}] /\ paid \in [Instruments -> Nat]
      /\ day \in 0 .. MaxDays /\ exits \subseteq Held
  BY DEF Inv, TypeOK, Closable
<1>4. \A i \in Instruments : /\ entries'[i] = IF i \in exits THEN NoEntry ELSE entries[i]
                             /\ paid'[i] = IF i \in exits THEN 0 ELSE paid[i]
  BY DEF Closed, Released
<1>5. DatedIds'
  <2>1. ASSUME NEW d \in Days, NEW i \in Instruments, NEW k \in Kinds, Known(account', <<d, i, k>>)
        PROVE  d <= day
    <3>1. \/ Known(account, <<d, i, k>>)
          \/ d = day
      BY <1>1, <2>1
    <3>. QED
      BY <1>3, <3>1, ConfigAssumption DEF Inv, DatedIds
  <2>. QED
    BY <2>1 DEF DatedIds
<1>6. SwitchIsDated'
  BY <1>1 DEF Inv, SwitchIsDated
<1>7. EntriesAreKnown'
  <2>1. ASSUME NEW i \in Instruments, entries'[i] # NoEntry
        PROVE  /\ Known(account', <<entries'[i].day, i, "buy">>)
               /\ (\A d \in Days : ~Known(account', <<d, i, "pyramid">>)) =>
                    /\ account'.held[i] = entries'[i].qty
                    /\ paid'[i] = entries'[i].qty * entries'[i].price
    <3>1. i \notin exits /\ entries'[i] = entries[i] /\ paid'[i] = paid[i]
          /\ account'.held[i] = account.held[i] /\ entries[i] # NoEntry
      BY <1>2, <1>4, <2>1
    <3>2. entries[i].day \in Days
      BY <1>3, <3>1 DEF Entry
    <3>3. /\ Known(account, <<entries[i].day, i, "buy">>)
          /\ (\A d \in Days : ~Known(account, <<d, i, "pyramid">>)) =>
               account.held[i] = entries[i].qty /\ paid[i] = entries[i].qty * entries[i].price
      BY <3>1 DEF Inv, EntriesAreKnown
    <3>4. Known(account', <<entries[i].day, i, "buy">>)
      BY <1>1, <3>2, <3>3
    <3>5. (\A d \in Days : ~Known(account', <<d, i, "pyramid">>)) =>
            \A d \in Days : ~Known(account, <<d, i, "pyramid">>)
      BY <1>1
    <3>. QED
      BY <3>1, <3>3, <3>4, <3>5
  <2>. QED
    BY <2>1 DEF EntriesAreKnown
<1>8. CostsAreHeld'
  BY <1>2, <1>4 DEF Inv, CostsAreHeld
<1>9. SlotsAreKept'
  <2>1. Cardinality(Held') <= Cardinality(Held) /\ Cardinality(Held') \in Nat /\ Cardinality(Held) \in Nat
    <3>1. Held' \in SUBSET Held /\ IsFiniteSet(Held)
      BY <1>2, HeldTypes DEF Inv
    <3>. QED
      BY <3>1, FS_Subset, FS_CardinalityType
  <2>2. Cardinality(Buyers(pending)) \in Nat
    BY BuyersTypes DEF Inv, TypeOK
  <2>3. Cardinality(Held) + Cardinality(Buyers(pending)) <= Slots /\ Slots \in Nat
    BY ConfigAssumption DEF Inv, SlotsAreKept
  <2>. QED
    BY <2>1, <2>2, <2>3 DEF SlotsAreKept
<1>10. WindowIsKept'
  BY <1>1 DEF Inv, WindowIsKept, InWindow
<1>11. EntriesArePaced'
  BY <1>1 DEF Inv, EntriesArePaced
<1>12. \A i \in Instruments : i \in Held' <=> entries'[i] # NoEntry
  BY <1>2, <1>3, <1>4 DEF Inv, PositionsAreKept
<1>. QED
  BY <1>5, <1>6, <1>7, <1>8, <1>9, <1>10, <1>11, <1>12

-----------------------------------------------------------------------------
(* _execute_pending *)

LEMMA Popped ==
  ASSUME Inv, PopNextDue
  PROVE  /\ NextDue \in Pending /\ NextDue \in ToSet(pending)
         /\ NextDue.instrument \in fresh /\ NextDue.instrument \in Instruments
         /\ bars[NextDue.instrument] \in Bars
         /\ pending' \in Seq(Pending) /\ Distinct(pending')
         /\ ToSet(pending') = ToSet(pending) \ {NextDue}
         /\ \A a \in ToSet(pending') : a.instrument # NextDue.instrument
         /\ phase = "execute" /\ day # 0
         /\ UNCHANGED <<risk, tripped, day, bars, fresh, phase>>
<1> DEFINE n == Min(Due)
<1>1. pending \in Seq(Pending) /\ Distinct(pending) /\ fresh \subseteq Instruments
      /\ bars \in [Instruments -> Bars \cup {NoBar}]
  BY DEF Inv, TypeOK, PendingFits
<1>2. /\ Len(pending) \in Nat /\ DOMAIN pending = 1 .. Len(pending)
      /\ \A m \in DOMAIN pending : pending[m] \in Pending /\ pending[m] \in ToSet(pending)
  BY <1>1, SeqDomain
<1>3. n \in Due
  <2>1. Due \subseteq Nat /\ Due # {}
    BY <1>2 DEF Due, PopNextDue
  <2>2. \E x \in Due : \A y \in Due : x <= y
    BY <2>1, LeastNat
  <2>. QED
    BY <2>2 DEF Min
<1>4. n \in DOMAIN pending /\ NextDue = pending[n] /\ NextDue.instrument \in fresh
  BY <1>3 DEF Due, NextDue
<1>5. pending' = RemoveAt(pending, n)
  BY DEF PopNextDue
<1> HIDE DEF n
<1>6. /\ pending' \in Seq(Pending) /\ Distinct(pending')
      /\ ToSet(pending') = ToSet(pending) \ {pending[n]}
      /\ \A a \in ToSet(pending') : a.instrument # pending[n].instrument
  BY <1>1, <1>4, <1>5, DistinctRemoved
<1>7. phase = "execute" /\ UNCHANGED <<risk, tripped, day, bars, fresh, phase>>
  BY DEF PopNextDue
<1>8. day # 0 /\ bars[NextDue.instrument] \in Bars /\ NextDue.instrument \in Instruments
  BY <1>1, <1>4, <1>7 DEF Inv, FreshIds, PositionsAreKept
<1>. QED
  BY <1>2, <1>4, <1>6, <1>7, <1>8

\* The next due action is of an instrument whose ids of this bar are new.
LEMMA DueIsNew ==
  ASSUME Inv, PopNextDue
  PROVE  \A k \in {"buy", "sell", "pyramid"} : ~Known(account, <<day, NextDue.instrument, k>>)
BY Popped DEF Inv, FreshIds

\* The step closes positions that can be closed.
SomeClosed ==
  day # 0 /\ \E exits, price, kind : Closable(exits, price, kind) /\ Closed(exits, price, kind)

LEMMA SellKeeps ==
  ASSUME Inv, ExecuteSell
  PROVE  Inv' /\ SomeClosed
<1> DEFINE i == NextDue.instrument
           exits == {i}
           price == [j \in {i} |-> SellPrice(100 * bars[i].open)]
           kind == [j \in {i} |-> "sell"]
<1>1. /\ PopNextDue /\ NextDue.action = "SELL" /\ i \in Held /\ Closed(exits, price, kind)
      /\ plans' = [plans EXCEPT ![i] = NoPlan] /\ recent' = recent
  BY DEF ExecuteSell
<1>2. /\ NextDue \in Pending /\ NextDue \in ToSet(pending) /\ i \in fresh /\ i \in Instruments
      /\ bars[i] \in Bars /\ pending' \in Seq(Pending) /\ Distinct(pending')
      /\ ToSet(pending') = ToSet(pending) \ {NextDue}
      /\ \A a \in ToSet(pending') : a.instrument # i
      /\ phase = "execute" /\ day # 0
      /\ UNCHANGED <<risk, tripped, day, bars, fresh, phase>>
  BY <1>1, Popped
<1>3. Closable(exits, price, kind)
  <2>1. price[i] \in Nat \ {0}
    BY <1>2, FillTypes
  <2>2. ~Known(account, <<day, i, "sell">>)
    BY <1>1, DueIsNew
  <2>3. entries[i] # NoEntry
    BY <1>1, <1>2 DEF Inv, PositionsAreKept
  <2>. QED
    BY <1>1, <2>1, <2>2, <2>3 DEF Closable, ExitKinds
<1>4. Buyers(pending') = Buyers(pending)
  BY <1>1, <1>2 DEF Buyers
<1> HIDE DEF price, i
<1>5. /\ DatedIds' /\ SwitchIsDated' /\ EntriesAreKnown' /\ CostsAreHeld'
      /\ SlotsAreKept' /\ WindowIsKept' /\ EntriesArePaced'
      /\ \A j \in Instruments : j \in Held' <=> entries'[j] # NoEntry
  BY <1>1, <1>2, <1>3, <1>4, ClosingKeeps
<1>6. /\ account' \in Account /\ Held' = Held \ exits
      /\ paid' \in [Instruments -> Nat] /\ realized' \in Int /\ records' \in Seq(Record)
      /\ entries' \in [Instruments -> Entry \cup {NoEntry}]
  BY <1>1, <1>2, <1>3, ClosedAccount, ClosedBooks DEF Inv
<1>7. /\ \A d \in Days, j \in Instruments, k \in Kinds :
           Known(account', <<d, j, k>>) <=>
             Known(account, <<d, j, k>>) \/ (d = day /\ j = i /\ k = "sell")
  <2>1. \A d \in Days, j \in Instruments, k \in Kinds :
           Known(account', <<d, j, k>>) <=>
             Known(account, <<d, j, k>>) \/ (d = day /\ j \in exits /\ k = kind[j])
    BY <1>1, <1>2, <1>3, ClosedIds DEF Inv
  <2>. QED
    BY <2>1
<1>8. \A j \in Instruments : plans'[j] = IF j = i THEN NoPlan ELSE plans[j]
  BY <1>1 DEF Inv, TypeOK
<1>9. TypeOK'
  BY <1>1, <1>2, <1>6 DEF Inv, TypeOK
<1>10. FreshIds'
  <2>1. day \in Days /\ \A k \in {"stop", "target", "buy", "sell", "pyramid", "final"} : k \in Kinds
    BY <1>2, IdTypes DEF Inv, TypeOK, Kinds
  <2>2. \A j \in Instruments, k \in {"stop", "target"} : ~Known(account', <<day, j, k>>)
    BY <1>2, <1>7, <2>1 DEF Inv, FreshIds
  <2>3. ASSUME NEW a \in ToSet(pending'), a.instrument \in fresh, NEW k \in {"buy", "sell", "pyramid"}
        PROVE  ~Known(account', <<day, a.instrument, k>>)
    <3>1. a \in ToSet(pending) /\ a.instrument # i /\ a.instrument \in Instruments
      BY <1>2, <2>3 DEF Inv, TypeOK
    <3>2. ~Known(account, <<day, a.instrument, k>>)
      BY <1>2, <2>3, <3>1 DEF Inv, FreshIds
    <3>. QED
      BY <1>7, <2>1, <3>1, <3>2
  <2>4. \A d \in Days, j \in Instruments : ~Known(account', <<d, j, "final">>)
    BY <1>2, <1>7, <2>1 DEF Inv, FreshIds
  <2>. QED
    BY <1>2, <2>2, <2>3, <2>4 DEF FreshIds
<1>11. PositionsAreKept'
  BY <1>2, <1>5, <1>6, <1>8 DEF Inv, PositionsAreKept
<1>12. PendingFits'
  <2>1. ASSUME NEW a \in ToSet(pending')
        PROVE  a \in ToSet(pending) /\ a.instrument \in Instruments /\ a.instrument # i
    <3>1. a \in ToSet(pending) /\ a \in Pending
      BY <1>2, <2>1, SeqDomain
    <3>. QED
      BY <1>2, <3>1 DEF Pending
  <2>2. \A a \in ToSet(pending') : a.instrument \in Held' <=> a.instrument \in Held
    BY <1>6, <2>1
  <2>. QED
    BY <1>2, <1>8, <2>1, <2>2 DEF Inv, PendingFits
<1>13. LevelsAreExecuted'
  BY <1>2 DEF LevelsAreExecuted
<1>14. SomeClosed
  BY <1>1, <1>2, <1>3 DEF SomeClosed
<1>. QED
  BY <1>5, <1>9, <1>10, <1>11, <1>12, <1>13, <1>14 DEF Inv
LEMMA WindowTypes ==
  ASSUME TypeOK
  PROVE  /\ IsFiniteSet(InWindow) /\ Cardinality(InWindow) \in Nat
         /\ IsFiniteSet(EntryDays)
<1>1. IsFiniteSet(Days) /\ IsFiniteSet(Instruments)
  BY FS_Interval, ConfigAssumption, HoldingsAssumption DEF Days
<1>2. IsFiniteSet(Days \X Instruments)
  BY <1>1, FS_Product
<1>3. InWindow \subseteq Days \X Instruments /\ EntryDays \subseteq Days \X Instruments
  BY DEF InWindow, EntryDays, TypeOK
<1>. QED
  BY <1>2, <1>3, FS_Subset, FS_CardinalityType

\* The action is dropped: nothing was bought.
LEMMA SkippedKeeps ==
  ASSUME Inv, PopNextDue, UNCHANGED <<account, paid, plans, entries, recent, records, realized>>
  PROVE  Inv'
<1>1. /\ pending' \in Seq(Pending) /\ Distinct(pending') /\ ToSet(pending') \subseteq ToSet(pending)
      /\ phase = "execute" /\ day # 0 /\ UNCHANGED <<risk, tripped, day, bars, fresh, phase>>
  BY Popped
<1>2. Held' = Held /\ EntryDays' = EntryDays /\ InWindow' = InWindow
  BY <1>1 DEF Held, EntryDays, InWindow
<1>3. /\ Buyers(pending') \subseteq Buyers(pending)
      /\ Cardinality(Buyers(pending')) <= Cardinality(Buyers(pending))
      /\ Cardinality(Buyers(pending')) \in Nat /\ Cardinality(Buyers(pending)) \in Nat
  <2>1. Buyers(pending') \subseteq Buyers(pending)
    BY <1>1 DEF Buyers
  <2>2. pending \in Seq(Pending)
    BY DEF Inv, TypeOK
  <2>. QED
    BY <1>1, <2>1, <2>2, BuyersTypes, FS_Subset
<1>4. TypeOK'
  BY <1>1 DEF Inv, TypeOK
<1>5. DatedIds' /\ FreshIds' /\ EntriesAreKnown' /\ CostsAreHeld' /\ SwitchIsDated'
  BY <1>1, <1>2 DEF Inv, DatedIds, FreshIds, EntriesAreKnown, CostsAreHeld, SwitchIsDated
<1>6. PositionsAreKept'
  BY <1>1, <1>2 DEF Inv, PositionsAreKept
<1>7. PendingFits'
  BY <1>1, <1>2 DEF Inv, PendingFits
<1>8. SlotsAreKept'
  <2>1. Cardinality(Held) \in Nat /\ Slots \in Nat
    BY HeldTypes, ConfigAssumption DEF Inv
  <2>. QED
    BY <1>2, <1>3, <2>1 DEF Inv, SlotsAreKept
<1>9. WindowIsKept'
  <2>1. Cardinality(InWindow) \in Nat /\ MaxNewEntries \in Nat
    BY WindowTypes, ConfigAssumption DEF Inv
  <2>. QED
    BY <1>1, <1>2, <1>3, <2>1 DEF Inv, WindowIsKept
<1>10. EntriesArePaced' /\ LevelsAreExecuted'
  BY <1>1, <1>2 DEF Inv, EntriesArePaced, LevelsAreExecuted
<1>. QED
  BY <1>4, <1>5, <1>6, <1>7, <1>8, <1>9, <1>10 DEF Inv

\* Whichever way it is computed, the size leaves room for the commission.
LEMMA SizeFits ==
  ASSUME TypeOK, NEW price \in Nat \ {0}, NEW of \in Nat \ {0}, NEW all \in Nat
  PROVE  /\ Size(price, of, all) \in Nat
         /\ Cost(Size(price, of, all), price) <= account.cash
<1>1. account.cash \in Nat
  BY AccountTypes DEF TypeOK
<1>. QED
  BY <1>1, WeightFits, SizedAtFits DEF Size


LEMMA BoughtIds ==
  ASSUME TypeOK, day # 0, NEW i \in Instruments, NEW kind \in {"buy", "pyramid"}, NEW price, NEW qty,
         BoughtOne(account, account', <<day, i, kind>>, i, price, qty)
  PROVE  /\ \A d \in Days, j \in Instruments, k \in Kinds :
              Known(account', <<d, j, k>>) <=> Known(account, <<d, j, k>>) \/ (d = day /\ j = i /\ k = kind)
         /\ account' \in Account /\ Held' = Held \cup {i} /\ qty \in Nat \ {0}
         /\ \A j \in Instruments :
              account'.held[j] = IF j = i THEN account.held[i] + qty ELSE account.held[j]
<1>1. ASSUME NEW d \in Days, NEW j \in Instruments, NEW k \in Kinds
      PROVE  Known(account', <<d, j, k>>) <=> Known(account, <<d, j, k>>) \/ (d = day /\ j = i /\ k = kind)
  <2>1. <<d, j, k>> \in Ids
    BY IdTypes
  <2>. QED
    BY <2>1 DEF BoughtOne, OnlyPlaced
<1>2. account' \in Account /\ qty \in Nat \ {0}
  BY DEF BoughtOne
<1>3. \A j \in Instruments : account'.held[j] = IF j = i THEN account.held[i] + qty ELSE account.held[j]
  BY AccountTypes DEF BoughtOne, TypeOK
<1>4. Held' = Held \cup {i}
  <2>1. \A j \in Instruments : account.held[j] \in Nat
    BY HeldTypes
  <2>. QED
    BY <1>2, <1>3, <2>1 DEF Held
<1>. QED
  BY <1>1, <1>2, <1>3, <1>4

LEMMA BoughtOutcome ==
  ASSUME TypeOK, day # 0, NEW i \in Instruments, NEW kind \in {"buy", "pyramid"},
         NEW price \in Nat \ {0}, NEW qty \in Nat, Cost(qty, price) <= account.cash,
         ~Known(account, <<day, i, kind>>), Bought(i, kind, price, qty)
  PROVE  \/ /\ ~risk.kill /\ BoughtOne(account, account', <<day, i, kind>>, i, price, qty)
            /\ Filled(i, kind)
         \/ account' = account /\ ~Filled(i, kind)
<1>1. <<day, i, kind>> \in Ids
  BY IdTypes DEF TypeOK, Kinds
<1>2. PICK id, acc, new, r, equity : /\ id \in Ids /\ id = <<day, i, kind>>
                                   /\ acc = account /\ new = account'
                                   /\ r = risk /\ equity = OpenEquity(bars)
  BY <1>1
<1>3. /\ acc \in Account /\ ~Known(acc, id) /\ Cost(qty, price) <= acc.cash
      /\ new = SubmitBuy(acc, r, id, i, equity, price, qty)
  BY <1>2 DEF Bought, TypeOK
<1>4. \/ ~r.kill /\ BoughtOne(acc, new, id, i, price, qty) /\ Submitted(acc, new, id)
      \/ new = acc /\ ~Submitted(acc, new, id)
  BY <1>2, <1>3, BuyOutcome
<1>. QED
  BY <1>2, <1>4 DEF Filled

\* What a step that buys does to the books: nothing, or one filled order that
\* opens a position, or one that enlarges it.
NothingBought == UNCHANGED <<account, paid, entries, records, realized, day>>
PaidFor(i, kind, price, qty) ==
  /\ ~Known(account, <<day, i, kind>>)
  /\ BoughtOne(account, account', <<day, i, kind>>, i, price, qty)
  /\ paid' = [paid EXCEPT ![i] = @ + qty * price]
  /\ UNCHANGED <<records, realized, day>>
Entered ==
  \E i \in Instruments, price \in Nat \ {0}, qty \in Nat \ {0} :
    /\ PaidFor(i, "buy", price, qty)
    /\ i \notin Held
    /\ entries' = [entries EXCEPT ![i] = [day |-> day, price |-> price, qty |-> qty]]
Enlarged ==
  \E i \in Instruments, price \in Nat \ {0}, qty \in Nat \ {0} :
    /\ PaidFor(i, "pyramid", price, qty)
    /\ UNCHANGED entries

LEMMA BuyKeeps ==
  ASSUME Inv, ExecuteBuy
  PROVE  Inv' /\ (NothingBought \/ Entered)
<1> DEFINE i == NextDue.instrument
           price == BuyPrice(bars[i])
           of == 100 * NextDue.close - NextDue.stop
           all == 100 * NextDue.close
           qty == Size(price, of, all)
<1>1. /\ PopNextDue /\ NextDue.action = "BUY" /\ i \notin Held /\ Bought(i, "buy", price, qty)
      /\ IF Filled(i, "buy")
         THEN /\ paid' = [paid EXCEPT ![i] = qty * price]
              /\ plans' = [plans EXCEPT ![i] =
                   [stop |-> NextDue.stop, target |-> NextDue.target,
                    highest |-> 100 * NextDue.close, additions |-> 0]]
              /\ entries' = [entries EXCEPT ![i] = [day |-> day, price |-> price, qty |-> qty]]
              /\ recent' = recent \cup {<<day, i>>}
         ELSE UNCHANGED <<paid, plans, entries, recent>>
      /\ UNCHANGED <<records, realized>>
  BY DEF ExecuteBuy
<1>2. /\ NextDue \in Pending /\ NextDue \in ToSet(pending) /\ i \in fresh /\ i \in Instruments
      /\ bars[i] \in Bars /\ pending' \in Seq(Pending) /\ Distinct(pending')
      /\ ToSet(pending') = ToSet(pending) \ {NextDue}
      /\ \A a \in ToSet(pending') : a.instrument # i
      /\ phase = "execute" /\ day # 0
      /\ UNCHANGED <<risk, tripped, day, bars, fresh, phase>>
  BY <1>1, Popped
<1>3. /\ NextDue.stop \in Nat \ {0} /\ NextDue.close \in Nat /\ NextDue.target \in Nat
      /\ all \in Nat \ {0} /\ of \in Nat \ {0} /\ price \in Nat \ {0}
  <2>1. NextDue.stop \in Nat /\ NextDue.close \in Nat /\ NextDue.target \in Nat
    BY <1>2 DEF Pending
  <2>2. 0 < NextDue.stop /\ NextDue.stop < 100 * NextDue.close
    BY <1>1, <1>2 DEF Inv, PendingFits
  <2>3. price \in Nat \ {0}
    BY <1>2, BuyPriceType
  <2>. QED
    BY <2>1, <2>2, <2>3
<1>4. qty \in Nat /\ Cost(qty, price) <= account.cash
  <2> HIDE DEF of, all, price
  <2>. QED
    BY <1>3, SizeFits DEF Inv
<1>5. <<day, i, "buy">> \in Ids /\ day \in Days /\ "buy" \in Kinds /\ ~Known(account, <<day, i, "buy">>)
  <2>1. day \in Days /\ "buy" \in Kinds
    BY <1>2, IdTypes DEF Inv, TypeOK, Kinds
  <2>. QED
    BY <1>1, <1>2, <2>1, IdTypes, DueIsNew
<1> HIDE DEF qty, of, all, price, i
<1>6. \/ /\ ~risk.kill /\ BoughtOne(account, account', <<day, i, "buy">>, i, price, qty)
         /\ Filled(i, "buy")
      \/ account' = account /\ ~Filled(i, "buy")
  <2>1. PICK p, q, j : p = price /\ q = qty /\ j = i
    OBVIOUS
  <2>2. /\ j \in Instruments /\ p \in Nat \ {0} /\ q \in Nat /\ Cost(q, p) <= account.cash
        /\ ~Known(account, <<day, j, "buy">>) /\ Bought(j, "buy", p, q)
    BY <1>1, <1>2, <1>3, <1>4, <1>5, <2>1
  <2>3. \/ /\ ~risk.kill /\ BoughtOne(account, account', <<day, j, "buy">>, j, p, q)
           /\ Filled(j, "buy")
        \/ account' = account /\ ~Filled(j, "buy")
    BY <1>2, <2>2, BoughtOutcome DEF Inv
  <2>. QED
    BY <2>1, <2>3
<1>7. CASE account' = account /\ ~Filled(i, "buy")
  BY <1>1, <1>2, <1>7, SkippedKeeps DEF NothingBought
<1>8. CASE /\ ~risk.kill /\ BoughtOne(account, account', <<day, i, "buy">>, i, price, qty)
           /\ Filled(i, "buy")
  <2> DEFINE plan == [stop |-> NextDue.stop, target |-> NextDue.target, highest |-> all, additions |-> 0]
             entry == [day |-> day, price |-> price, qty |-> qty]
  <2>1. /\ \A d \in Days, j \in Instruments, k \in Kinds :
             Known(account', <<d, j, k>>) <=> Known(account, <<d, j, k>>) \/ (d = day /\ j = i /\ k = "buy")
        /\ account' \in Account /\ Held' = Held \cup {i} /\ qty \in Nat \ {0}
        /\ \A j \in Instruments :
             account'.held[j] = IF j = i THEN account.held[i] + qty ELSE account.held[j]
    BY <1>2, <1>8, BoughtIds DEF Inv
  <2>2. plan \in Plan /\ plan # NoPlan /\ entry \in Entry /\ entry # NoEntry /\ qty * price \in Nat
    <3>1. 0 \in 0 .. MaxAdditions
      BY ConfigAssumption
    <3>2. plan.stop # NoPlan.stop /\ entry.day # NoEntry.day
      BY <1>2, <1>3 DEF NoPlan, NoEntry, None
    <3>3. plan \in Plan
      BY <1>3, <3>1 DEF Plan
    <3>4. entry \in Entry
      BY <1>3, <1>5, <2>1 DEF Entry
    <3>5. qty * price \in Nat
      BY <1>3, <2>1
    <3>. QED
      BY <3>2, <3>3, <3>4, <3>5
  <2>3. /\ paid' = [paid EXCEPT ![i] = qty * price]
        /\ plans' = [plans EXCEPT ![i] = plan]
        /\ entries' = [entries EXCEPT ![i] = entry]
        /\ recent' = recent \cup {<<day, i>>}
        /\ UNCHANGED <<records, realized>>
    BY <1>1, <1>8 DEF all
  <2> HIDE DEF plan
  <2>4. \A j \in Instruments : /\ paid'[j] = IF j = i THEN qty * price ELSE paid[j]
                               /\ plans'[j] = IF j = i THEN plan ELSE plans[j]
                               /\ entries'[j] = IF j = i THEN entry ELSE entries[j]
    BY <2>3 DEF Inv, TypeOK
  <2>5. TypeOK'
    BY <1>2, <1>5, <2>1, <2>2, <2>3 DEF Inv, TypeOK
  <2>6. DatedIds'
    <3>1. \A d \in Days, j \in Instruments, k \in Kinds : Known(account', <<d, j, k>>) => d <= day
      BY <1>5, <2>1, IdTypes DEF Inv, DatedIds
    <3>. QED
      BY <1>2, <3>1 DEF DatedIds
  <2>7. FreshIds'
    <3>1. \A k \in {"stop", "target", "buy", "sell", "pyramid", "final"} : k \in Kinds
      BY DEF Kinds
    <3>2. \A j \in Instruments, k \in {"stop", "target"} : ~Known(account', <<day, j, k>>)
      BY <1>2, <1>5, <2>1, <3>1 DEF Inv, FreshIds
    <3>3. ASSUME NEW a \in ToSet(pending'), a.instrument \in fresh, NEW k \in {"buy", "sell", "pyramid"}
          PROVE  ~Known(account', <<day, a.instrument, k>>)
      <4>1. a \in ToSet(pending) /\ a.instrument # i /\ a.instrument \in Instruments
        BY <1>2, <3>3 DEF Inv, TypeOK
      <4>2. ~Known(account, <<day, a.instrument, k>>)
        BY <1>2, <3>3, <4>1 DEF Inv, FreshIds
      <4>. QED
        BY <1>5, <2>1, <3>1, <4>1, <4>2
    <3>4. \A d \in Days, j \in Instruments : ~Known(account', <<d, j, "final">>)
      BY <1>2, <2>1, <3>1 DEF Inv, FreshIds
    <3>. QED
      BY <1>2, <3>2, <3>3, <3>4 DEF FreshIds
  <2>8. PositionsAreKept'
    <3>1. bars[i] # NoBar
      BY <1>2, BarTypes
    <3>. QED
      BY <1>2, <2>1, <2>2, <2>4, <3>1 DEF Inv, PositionsAreKept
  <2>9. PendingFits'
    <3>1. ASSUME NEW a \in ToSet(pending')
          PROVE  a \in ToSet(pending) /\ a.instrument \in Instruments /\ a.instrument # i
      <4>1. a \in ToSet(pending) /\ a \in Pending
        BY <1>2, <3>1, SeqDomain
      <4>. QED
        BY <1>2, <4>1 DEF Pending
    <3>2. \A a \in ToSet(pending') : a.instrument \in Held' <=> a.instrument \in Held
      BY <2>1, <3>1
    <3>. QED
      BY <1>2, <2>4, <3>1, <3>2 DEF Inv, PendingFits
  <2>10. /\ Buyers(pending') = Buyers(pending) \ {i} /\ i \in Buyers(pending)
         /\ Cardinality(Buyers(pending')) = Cardinality(Buyers(pending)) - 1
         /\ Cardinality(Buyers(pending)) \in Nat \ {0}
    <3>1. Buyers(pending') = Buyers(pending) \ {i}
      BY <1>2 DEF Buyers, i
    <3>2. i \in Buyers(pending)
      BY <1>1, <1>2 DEF Buyers, i
    <3>3. IsFiniteSet(Buyers(pending)) /\ Cardinality(Buyers(pending)) \in Nat
      BY BuyersTypes DEF Inv, TypeOK
    <3>4. Cardinality(Buyers(pending)) # 0
      BY <3>2, <3>3, FS_EmptySet
    <3>. QED
      BY <3>1, <3>2, <3>3, <3>4, FS_RemoveElement
  <2>11. SlotsAreKept'
    <3>1. Cardinality(Held') = Cardinality(Held) + 1 /\ Cardinality(Held) \in Nat
      BY <1>1, <2>1, HeldTypes, FS_AddElement DEF Inv, i
    <3>. QED
      BY <2>10, <3>1 DEF Inv, SlotsAreKept
  <2>12. SwitchIsDated'
    BY <1>2, <1>8 DEF Inv, SwitchIsDated
  <2>13. EntriesAreKnown'
    <3>1. account.held[i] = 0
      <4>1. account.held[i] \in Nat
        BY <1>2, HeldTypes DEF Inv
      <4>. QED
        BY <1>1, <1>2, <4>1 DEF Held, i
    <3>2. /\ Known(account', <<entries'[i].day, i, "buy">>)
          /\ account'.held[i] = entries'[i].qty /\ paid'[i] = entries'[i].qty * entries'[i].price
      BY <1>2, <1>5, <2>1, <2>4, <3>1
    <3>3. ASSUME NEW j \in Instruments, j # i, entries'[j] # NoEntry
          PROVE  /\ Known(account', <<entries'[j].day, j, "buy">>)
                 /\ (\A d \in Days : ~Known(account', <<d, j, "pyramid">>)) =>
                      /\ account'.held[j] = entries'[j].qty
                      /\ paid'[j] = entries'[j].qty * entries'[j].price
      <4>1. entries'[j] = entries[j] /\ paid'[j] = paid[j] /\ account'.held[j] = account.held[j]
        BY <2>1, <2>4, <3>3
      <4>2. entries[j].day \in Days
        BY <3>3, <4>1 DEF Inv, TypeOK, Entry
      <4>3. "pyramid" \in Kinds
        BY DEF Kinds
      <4>. QED
        BY <1>5, <2>1, <3>3, <4>1, <4>2, <4>3 DEF Inv, EntriesAreKnown
    <3>. QED
      BY <3>2, <3>3 DEF EntriesAreKnown
  <2>14. CostsAreHeld'
    BY <2>1, <2>4 DEF Inv, CostsAreHeld
  <2>15. EntryDays' = EntryDays \cup {<<day, i>>}
    <3>1. \A o \in Days \X Instruments :
            Known(account', <<o[1], o[2], "buy">>) <=> Known(account, <<o[1], o[2], "buy">>) \/ o = <<day, i>>
      BY <1>5, <2>1
    <3>2. <<day, i>> \in Days \X Instruments
      BY <1>2, <1>5
    <3>. QED
      BY <3>1, <3>2 DEF EntryDays
  <2>16. ASSUME MaxNewEntries # 0
         PROVE  /\ InWindow' = InWindow \cup {<<day, i>>} /\ IsFiniteSet(InWindow')
                /\ Cardinality(InWindow') <= Cardinality(InWindow) + 1
                /\ Cardinality(InWindow') \in Nat /\ Cardinality(InWindow) \in Nat
                /\ Cardinality(InWindow') + Cardinality(Buyers(pending')) <= MaxNewEntries
                /\ Cardinality(InWindow') <= MaxNewEntries
    <3>1. InWindow' = InWindow \cup {<<day, i>>}
      <4>1. day >= day - EntryPeriod
        BY <1>5, IdTypes, ConfigAssumption
      <4>. QED
        BY <1>2, <2>3, <4>1 DEF InWindow
    <3>2. IsFiniteSet(InWindow) /\ Cardinality(InWindow) \in Nat
      BY WindowTypes DEF Inv
    <3>3. IsFiniteSet(InWindow') /\ Cardinality(InWindow') <= Cardinality(InWindow) + 1
      BY <3>1, <3>2, FS_AddElement
    <3>4. Cardinality(InWindow') \in Nat
      BY <3>3, FS_CardinalityType
    <3>5. Cardinality(InWindow) + Cardinality(Buyers(pending)) <= MaxNewEntries
      BY <2>10, <2>16 DEF Inv, WindowIsKept
    <3>6. MaxNewEntries \in Nat
      BY ConfigAssumption
    <3>. QED
      BY <2>10, <3>1, <3>2, <3>3, <3>4, <3>5, <3>6
  <2>17. WindowIsKept'
    <3>1. ASSUME MaxNewEntries # 0
          PROVE  /\ recent' \subseteq EntryDays'
                 /\ \A o \in EntryDays' : o[1] >= day - EntryPeriod => o \in recent'
      BY <2>3, <2>15, <3>1 DEF Inv, WindowIsKept
    <3>. QED
      BY <1>2, <2>16, <3>1 DEF WindowIsKept
  <2>18. EntriesArePaced'
    <3>1. SUFFICES ASSUME MaxNewEntries # 0, NEW last \in EntryDays'
                   PROVE  Cardinality({o \in EntryDays' : last[1] - EntryPeriod <= o[1] /\ o[1] <= last[1]})
                            <= MaxNewEntries
      BY DEF EntriesArePaced
    <3>2. EntryDays' \subseteq Days \X Instruments
      BY DEF EntryDays
    <3>3. CASE last[1] = day
      <4>1. {o \in EntryDays' : last[1] - EntryPeriod <= o[1] /\ o[1] <= last[1]} \subseteq InWindow'
        <5>1. ASSUME NEW o \in EntryDays', last[1] - EntryPeriod <= o[1]
              PROVE  o \in InWindow'
          <6>1. o[1] >= day - EntryPeriod
            BY <3>2, <3>3, <5>1, IdTypes, ConfigAssumption
          <6>2. o \in recent'
            BY <1>2, <2>17, <3>1, <6>1 DEF WindowIsKept
          <6>. QED
            BY <1>2, <6>1, <6>2 DEF InWindow
        <5>. QED
          BY <5>1
      <4>2. PICK c, w : c \in Nat /\ c = Cardinality(w) /\ w = InWindow' /\ IsFiniteSet(w) /\ c <= MaxNewEntries
        BY <2>16, <3>1
      <4>3. PICK s : s = {o \in EntryDays' : last[1] - EntryPeriod <= o[1] /\ o[1] <= last[1]}
        OBVIOUS
      <4>4. Cardinality(s) <= Cardinality(w) /\ Cardinality(s) \in Nat
        BY <4>1, <4>2, <4>3, FS_Subset, FS_CardinalityType
      <4>. QED
        BY <4>2, <4>3, <4>4, ConfigAssumption
    <3>4. CASE last[1] # day
      <4>1. last \in EntryDays /\ last[1] \in Days /\ last[1] < day
        <5>1. last \in EntryDays
          BY <2>15, <3>4
        <5>2. "buy" \in Kinds /\ last[1] \in Days /\ last[2] \in Instruments /\ Known(account, <<last[1], last[2], "buy">>)
          BY <5>1 DEF EntryDays, Kinds
        <5>3. last[1] <= day
          BY <5>2 DEF Inv, DatedIds
        <5>. QED
          BY <1>5, <3>4, <5>1, <5>2, <5>3, IdTypes
      <4>2. {o \in EntryDays' : last[1] - EntryPeriod <= o[1] /\ o[1] <= last[1]}
              = {o \in EntryDays : last[1] - EntryPeriod <= o[1] /\ o[1] <= last[1]}
        <5>1. ~(<<day, i>>[1] <= last[1])
          BY <1>5, <4>1, IdTypes
        <5>. QED
          BY <2>15, <5>1
      <4>. QED
        BY <3>1, <4>1, <4>2 DEF Inv, EntriesArePaced
    <3>. QED
      BY <3>3, <3>4
  <2>19. LevelsAreExecuted'
    BY <1>2 DEF LevelsAreExecuted
  <2>20. Entered
    <3>1. i \notin Held
      BY <1>1 DEF i
    <3>2. paid' = [paid EXCEPT ![i] = @ + qty * price]
      <4>1. paid[i] = 0
        BY <1>2, <3>1 DEF Inv, CostsAreHeld
      <4>2. PICK c \in Nat : c = qty * price
        BY <2>2
      <4>3. paid[i] + qty * price = qty * price
        BY <4>1, <4>2
      <4>. QED
        BY <2>3, <4>3
    <3>3. PaidFor(i, "buy", price, qty)
      BY <1>2, <1>5, <1>8, <2>3, <3>2 DEF PaidFor
    <3>. QED
      BY <1>2, <1>3, <2>1, <2>3, <3>1, <3>3 DEF Entered
  <2>. QED
    BY <2>5, <2>6, <2>7, <2>8, <2>9, <2>11, <2>12, <2>13, <2>14, <2>17, <2>18, <2>19, <2>20 DEF Inv
<1>. QED
  BY <1>6, <1>7, <1>8

\* What is added to a position costs what the cash can pay.
LEMMA PyramidFits ==
  ASSUME TypeOK, NEW price \in Nat \ {0}, NEW plan \in Plan, NEW held \in Nat, NEW qty,
         qty = Lower(SizedAt(account.cash, price,
                             Higher(100 * (plan.highest - plan.stop), plan.highest), 100 * plan.highest),
                     Higher(1, (held * PyramidPct) \div 100))
  PROVE  qty \in Nat /\ Cost(qty, price) <= account.cash
<1> DEFINE of == Higher(100 * (plan.highest - plan.stop), plan.highest)
           all == 100 * plan.highest
           most == SizedAt(account.cash, price, of, all)
           share == Higher(1, (held * PyramidPct) \div 100)
<1>1. plan.highest \in Nat \ {0} /\ plan.stop \in Nat
  BY DEF Plan
<1>2. of \in Nat \ {0} /\ all \in Nat
  BY <1>1 DEF Higher
<1>3. account.cash \in Nat
  BY AccountTypes DEF TypeOK
<1>4. most \in Nat /\ Cost(most, price) <= account.cash
  <2> HIDE DEF of, all
  <2>. QED
    BY <1>2, <1>3, SizedAtFits
<1>5. share \in Nat
  <2>1. held * PyramidPct \in Nat
    BY ConfigAssumption
  <2>2. (held * PyramidPct) \div 100 \in Nat
    <3>1. PICK p \in Nat : p = held * PyramidPct
      BY <2>1
    <3>2. p \div 100 \in Nat
      OBVIOUS
    <3>. QED
      BY <3>1, <3>2
  <2>. QED
    BY <2>2 DEF Higher
<1>6. qty = Lower(most, share)
  OBVIOUS
<1> HIDE DEF most, share
<1>7. qty \in Nat /\ qty <= most
  BY <1>4, <1>5, <1>6 DEF Lower
<1>8. Cost(qty, price) <= Cost(most, price) /\ Cost(qty, price) \in Nat /\ Cost(most, price) \in Nat
  BY <1>4, <1>7, CostGrows
<1>. QED
  BY <1>3, <1>4, <1>7, <1>8

LEMMA PyramidKeeps ==
  ASSUME Inv, ExecutePyramid
  PROVE  Inv' /\ (NothingBought \/ Enlarged)
<1> DEFINE i == NextDue.instrument
           plan == plans[i]
           price == BuyPrice(bars[i])
           distance == Higher(100 * (plan.highest - plan.stop), plan.highest)
           qty == Lower(SizedAt(account.cash, price, distance, 100 * plan.highest),
                        Higher(1, (account.held[i] * PyramidPct) \div 100))
<1>1. /\ PopNextDue /\ NextDue.action = "PYRAMID" /\ i \in Held /\ plan # NoPlan
      /\ Bought(i, "pyramid", price, qty)
      /\ IF Filled(i, "pyramid")
         THEN /\ paid' = [paid EXCEPT ![i] = @ + qty * price]
              /\ plans' = [plans EXCEPT ![i].additions = @ + 1]
         ELSE UNCHANGED <<paid, plans>>
      /\ UNCHANGED <<entries, recent, records, realized>>
  BY DEF ExecutePyramid
<1>2. /\ NextDue \in Pending /\ NextDue \in ToSet(pending) /\ i \in fresh /\ i \in Instruments
      /\ bars[i] \in Bars /\ pending' \in Seq(Pending) /\ Distinct(pending')
      /\ ToSet(pending') = ToSet(pending) \ {NextDue}
      /\ \A a \in ToSet(pending') : a.instrument # i
      /\ phase = "execute" /\ day # 0
      /\ UNCHANGED <<risk, tripped, day, bars, fresh, phase>>
  BY <1>1, Popped
<1>3. plan \in Plan /\ price \in Nat \ {0} /\ account.held[i] \in Nat
  BY <1>1, <1>2, BuyPriceType, HeldTypes DEF Inv, TypeOK
<1>4. qty \in Nat /\ Cost(qty, price) <= account.cash
  <2>1. PICK p \in Plan, c \in Nat \ {0}, h \in Nat : p = plan /\ c = price /\ h = account.held[i]
    BY <1>3
  <2>2. PICK q : q = Lower(SizedAt(account.cash, c, Higher(100 * (p.highest - p.stop), p.highest), 100 * p.highest),
                           Higher(1, (h * PyramidPct) \div 100))
    OBVIOUS
  <2>3. q \in Nat /\ Cost(q, c) <= account.cash
    BY <2>2, PyramidFits DEF Inv
  <2>. QED
    BY <2>1, <2>2, <2>3
<1>5. <<day, i, "pyramid">> \in Ids /\ day \in Days /\ "pyramid" \in Kinds /\ ~Known(account, <<day, i, "pyramid">>)
  <2>1. day \in Days /\ "pyramid" \in Kinds
    BY <1>2, IdTypes DEF Inv, TypeOK, Kinds
  <2>. QED
    BY <1>1, <1>2, <2>1, IdTypes, DueIsNew
<1>6. plan.additions + 1 \in 0 .. MaxAdditions /\ plan.additions \in 0 .. MaxAdditions
  <2>1. plan.additions < MaxAdditions
    BY <1>1, <1>2 DEF Inv, PendingFits
  <2>. QED
    BY <1>3, <2>1, ConfigAssumption DEF Plan
<1> HIDE DEF qty, price, i, plan
<1>7. \/ /\ ~risk.kill /\ BoughtOne(account, account', <<day, i, "pyramid">>, i, price, qty)
         /\ Filled(i, "pyramid")
      \/ account' = account /\ ~Filled(i, "pyramid")
  <2>1. PICK p, q, j : p = price /\ q = qty /\ j = i
    OBVIOUS
  <2>2. /\ j \in Instruments /\ p \in Nat \ {0} /\ q \in Nat /\ Cost(q, p) <= account.cash
        /\ ~Known(account, <<day, j, "pyramid">>) /\ Bought(j, "pyramid", p, q)
    BY <1>1, <1>2, <1>3, <1>4, <1>5, <2>1
  <2>3. \/ /\ ~risk.kill /\ BoughtOne(account, account', <<day, j, "pyramid">>, j, p, q)
           /\ Filled(j, "pyramid")
        \/ account' = account /\ ~Filled(j, "pyramid")
    BY <1>2, <2>2, BoughtOutcome DEF Inv
  <2>. QED
    BY <2>1, <2>3
<1>8. CASE account' = account /\ ~Filled(i, "pyramid")
  BY <1>1, <1>2, <1>8, SkippedKeeps DEF NothingBought
<1>9. CASE /\ ~risk.kill /\ BoughtOne(account, account', <<day, i, "pyramid">>, i, price, qty)
           /\ Filled(i, "pyramid")
  <2> DEFINE larger == [plan EXCEPT !.additions = @ + 1]
  <2>1. /\ \A d \in Days, j \in Instruments, k \in Kinds :
             Known(account', <<d, j, k>>) <=> Known(account, <<d, j, k>>) \/ (d = day /\ j = i /\ k = "pyramid")
        /\ account' \in Account /\ Held' = Held \cup {i} /\ qty \in Nat \ {0}
        /\ \A j \in Instruments :
             account'.held[j] = IF j = i THEN account.held[i] + qty ELSE account.held[j]
    BY <1>2, <1>9, BoughtIds DEF Inv
  <2>2. Held' = Held
    BY <1>1, <2>1 DEF i
  <2>3. larger \in Plan /\ larger # NoPlan
    <3>1. larger \in Plan
      BY <1>3, <1>6 DEF Plan
    <3>2. larger.stop # NoPlan.stop
      BY <3>1 DEF Plan, NoPlan, None
    <3>. QED
      BY <3>1, <3>2
  <2>4. /\ paid' = [paid EXCEPT ![i] = @ + qty * price]
        /\ plans' = [plans EXCEPT ![i].additions = @ + 1]
        /\ UNCHANGED <<entries, recent, records, realized>>
    BY <1>1, <1>9
  <2>5. plans' = [plans EXCEPT ![i] = larger]
    BY <1>2, <2>4 DEF plan, Inv, TypeOK
  <2> HIDE DEF larger
  <2>6. paid[i] + qty * price \in Nat
    <3>1. PICK c \in Nat : c = qty * price
      BY <1>3, <2>1
    <3>2. paid[i] \in Nat
      BY <1>2 DEF Inv, TypeOK
    <3>. QED
      BY <3>1, <3>2
  <2>7. \A j \in Instruments : /\ paid'[j] = IF j = i THEN paid[i] + qty * price ELSE paid[j]
                               /\ plans'[j] = IF j = i THEN larger ELSE plans[j]
    BY <2>4, <2>5 DEF Inv, TypeOK
  <2>8. TypeOK'
    BY <1>2, <1>5, <2>1, <2>3, <2>4, <2>5, <2>6 DEF Inv, TypeOK
  <2>9. DatedIds'
    <3>1. \A d \in Days, j \in Instruments, k \in Kinds : Known(account', <<d, j, k>>) => d <= day
      BY <1>5, <2>1, IdTypes DEF Inv, DatedIds
    <3>. QED
      BY <1>2, <3>1 DEF DatedIds
  <2>10. FreshIds'
    <3>1. \A k \in {"stop", "target", "buy", "sell", "pyramid", "final"} : k \in Kinds
      BY DEF Kinds
    <3>2. \A j \in Instruments, k \in {"stop", "target"} : ~Known(account', <<day, j, k>>)
      BY <1>2, <1>5, <2>1, <3>1 DEF Inv, FreshIds
    <3>3. ASSUME NEW a \in ToSet(pending'), a.instrument \in fresh, NEW k \in {"buy", "sell", "pyramid"}
          PROVE  ~Known(account', <<day, a.instrument, k>>)
      <4>1. a \in ToSet(pending) /\ a.instrument # i /\ a.instrument \in Instruments
        BY <1>2, <3>3 DEF Inv, TypeOK
      <4>2. ~Known(account, <<day, a.instrument, k>>)
        BY <1>2, <3>3, <4>1 DEF Inv, FreshIds
      <4>. QED
        BY <1>5, <2>1, <3>1, <4>1, <4>2
    <3>4. \A d \in Days, j \in Instruments : ~Known(account', <<d, j, "final">>)
      BY <1>2, <2>1, <3>1 DEF Inv, FreshIds
    <3>. QED
      BY <1>2, <3>2, <3>3, <3>4 DEF FreshIds
  <2>11. PositionsAreKept'
    <3>1. \A j \in Held' \cup fresh' : bars'[j] # NoBar
      BY <1>2, <2>2 DEF Inv, PositionsAreKept
    <3>2. \A j \in Instruments : j \in Held' <=> entries'[j] # NoEntry
      BY <2>2, <2>4 DEF Inv, PositionsAreKept
    <3>3. \A j \in Instruments : j \in Held' <=> plans'[j] # NoPlan
      BY <1>2, <2>1, <2>2, <2>3, <2>7 DEF Inv, PositionsAreKept
    <3>. QED
      BY <3>1, <3>2, <3>3 DEF PositionsAreKept
  <2>12. PendingFits'
    <3>1. ASSUME NEW a \in ToSet(pending')
          PROVE  a \in ToSet(pending) /\ a.instrument \in Instruments /\ a.instrument # i
      <4>1. a \in ToSet(pending) /\ a \in Pending
        BY <1>2, <3>1, SeqDomain
      <4>. QED
        BY <1>2, <4>1 DEF Pending
    <3>. QED
      BY <1>2, <2>2, <2>7, <3>1 DEF Inv, PendingFits
  <2>13. Buyers(pending') = Buyers(pending)
    BY <1>1, <1>2 DEF Buyers
  <2>14. EntryDays' = EntryDays
    <3>1. \A o \in Days \X Instruments :
            Known(account', <<o[1], o[2], "buy">>) <=> Known(account, <<o[1], o[2], "buy">>)
      BY <2>1 DEF Kinds
    <3>. QED
      BY <3>1 DEF EntryDays
  <2>15. SlotsAreKept'
    BY <2>2, <2>13 DEF Inv, SlotsAreKept
  <2>16. WindowIsKept'
    BY <1>2, <2>4, <2>13, <2>14 DEF Inv, WindowIsKept, InWindow
  <2>17. EntriesArePaced'
    BY <2>14 DEF Inv, EntriesArePaced
  <2>18. SwitchIsDated'
    BY <1>2, <1>9 DEF Inv, SwitchIsDated
  <2>19. CostsAreHeld'
    BY <2>1, <2>2, <2>7 DEF Inv, CostsAreHeld
  <2>20. EntriesAreKnown'
    <3>1. ASSUME NEW j \in Instruments, entries[j] # NoEntry
          PROVE  /\ Known(account', <<entries[j].day, j, "buy">>)
                 /\ (\A d \in Days : ~Known(account', <<d, j, "pyramid">>)) =>
                      /\ account'.held[j] = entries[j].qty
                      /\ paid'[j] = entries[j].qty * entries[j].price
      <4>1. "buy" \in Kinds /\ "pyramid" \in Kinds /\ entries[j].day \in Days
        BY <3>1 DEF Kinds, Inv, TypeOK, Entry
      <4>2. CASE j = i
        BY <1>5, <2>1, <3>1, <4>1, <4>2 DEF Inv, EntriesAreKnown
      <4>3. CASE j # i
        BY <1>5, <2>1, <2>7, <3>1, <4>1, <4>3 DEF Inv, EntriesAreKnown
      <4>. QED
        BY <4>2, <4>3
    <3>. QED
      BY <2>4, <3>1 DEF EntriesAreKnown
  <2>21. LevelsAreExecuted'
    BY <1>2 DEF LevelsAreExecuted
  <2>22. Enlarged
    <3>1. PaidFor(i, "pyramid", price, qty)
      BY <1>2, <1>5, <1>9, <2>4 DEF PaidFor
    <3>. QED
      BY <1>2, <1>3, <2>1, <2>4, <3>1 DEF Enlarged
  <2>. QED
    BY <2>8, <2>9, <2>10, <2>11, <2>12, <2>15, <2>16, <2>17, <2>18, <2>19, <2>20, <2>21, <2>22 DEF Inv
<1>. QED
  BY <1>7, <1>8, <1>9

-----------------------------------------------------------------------------
(* _execute_stops_and_targets *)

LEMMA StopTypes ==
  ASSUME Inv, NEW i \in Watched
  PROVE  /\ i \in Held /\ i \in fresh /\ i \in Instruments /\ plans[i] \in Plan /\ bars[i] \in Bars
         /\ StopOf(i) \in Nat \ {0} /\ plans[i].stop <= StopOf(i)
<1>1. /\ i \in Held /\ i \in fresh /\ i \in Instruments /\ plans[i] \in Plan /\ bars[i] \in Bars
  BY DEF Watched, Inv, TypeOK, Held, PositionsAreKept
<1>2. plans[i].stop \in Nat \ {0} /\ plans[i].highest \in Nat /\ bars[i].atr \in Nat /\ TrailAtr \in Nat
  BY <1>1, BarTypes, ConfigAssumption DEF Plan
<1>3. PICK a \in Nat : a = 100 * bars[i].atr * TrailAtr
  BY <1>2
<1>4. StopOf(i) \in Nat \ {0} /\ plans[i].stop <= StopOf(i)
  BY <1>2, <1>3 DEF StopOf, Higher
<1>. QED
  BY <1>1, <1>4

LEMMA ExitsKeep ==
  ASSUME Inv, Exits
  PROVE  Inv' /\ SomeClosed
<1> DEFINE exits == Stopped \cup Reaching
           price == [i \in exits |-> IF i \in Stopped THEN StopFill(bars[i], StopOf(i))
                                     ELSE TargetFill(bars[i], plans[i].target)]
           kind == [i \in exits |-> IF i \in Stopped THEN "stop" ELSE "target"]
<1>1. /\ phase = "execute" /\ Due = {} /\ Closed(exits, price, kind)
      /\ plans' = [i \in Instruments |->
           CASE i \in exits -> NoPlan
             [] i \in Watched \ exits /\ TrailAtr # 0 ->
                  [plans[i] EXCEPT !.highest = Higher(@, 100 * bars[i].close)]
             [] OTHER -> plans[i]]
      /\ phase' = "scan"
      /\ UNCHANGED <<risk, tripped, day, bars, fresh, pending, recent>>
  BY DEF Exits
<1>2. exits \subseteq Watched /\ exits \subseteq Held /\ exits \subseteq fresh /\ day # 0 /\ day \in Days
  BY <1>1, IdTypes DEF Stopped, Reaching, Watched, Inv, FreshIds, TypeOK
<1>3. Closable(exits, price, kind)
  <2>1. ASSUME NEW i \in exits
        PROVE  /\ price[i] \in Nat \ {0} /\ kind[i] \in {"stop", "target"}
               /\ ~Known(account, <<day, i, kind[i]>>) /\ entries[i] # NoEntry
    <3>1. /\ i \in Held /\ i \in Instruments /\ plans[i] \in Plan /\ bars[i] \in Bars
          /\ StopOf(i) \in Nat
      BY <1>2, StopTypes
    <3>2. price[i] \in Nat \ {0}
      <4>1. CASE i \in Stopped
        <5>1. Crossed(bars[i], StopOf(i))
          BY <4>1 DEF Stopped
        <5>2. StopFill(bars[i], StopOf(i)) \in Nat \ {0}
          BY <3>1, <5>1, FillTypes
        <5>. QED
          BY <4>1, <5>2
      <4>2. CASE i \notin Stopped
        <5>1. plans[i].target \in Nat
          BY <3>1 DEF Plan
        <5>2. TargetFill(bars[i], plans[i].target) \in Nat \ {0}
          BY <3>1, <5>1, FillTypes
        <5>. QED
          BY <4>2, <5>2
      <4>. QED
        BY <4>1, <4>2
    <3>3. kind[i] \in {"stop", "target"}
      OBVIOUS
    <3>. QED
      BY <1>1, <3>1, <3>2, <3>3 DEF Inv, FreshIds, PositionsAreKept
  <2>. QED
    BY <1>2, <2>1 DEF Closable, ExitKinds
<1>4. \A i \in exits : kind[i] \in {"stop", "target"}
  OBVIOUS
<1>5. \A i \in Held \cap fresh : i \in Watched
  BY <1>1, IdTypes DEF Watched, Inv, PositionsAreKept, Held
<1>6. /\ \A i \in exits : plans'[i] = NoPlan
      /\ \A i \in Instruments \ Watched : plans'[i] = plans[i]
      /\ \A i \in Watched \ exits : /\ plans'[i] \in Plan /\ plans'[i] # NoPlan
                                    /\ plans'[i].stop = plans[i].stop /\ plans'[i].target = plans[i].target
      /\ plans' \in [Instruments -> Plan \cup {NoPlan}]
  <2>1. exits \subseteq Instruments /\ plans \in [Instruments -> Plan \cup {NoPlan}]
    BY <1>2 DEF Held, Inv, TypeOK
  <2>2. \A i \in exits : plans'[i] = NoPlan
    BY <1>1, <2>1
  <2>3. \A i \in Instruments \ Watched : plans'[i] = plans[i]
    BY <1>1, <1>2
  <2>4. ASSUME NEW i \in Watched \ exits
        PROVE  /\ plans'[i] \in Plan /\ plans'[i] # NoPlan
               /\ plans'[i].stop = plans[i].stop /\ plans'[i].target = plans[i].target
    <3>1. i \in Instruments /\ plans[i] \in Plan /\ bars[i] \in Bars
      BY StopTypes
    <3>2. PICK plan \in Plan : plan = plans[i]
      BY <3>1
    <3>3. PICK high \in Nat \ {0} : high = Higher(plan.highest, 100 * bars[i].close)
      BY <3>1, BarTypes DEF Higher, Plan
    <3>4. plans'[i] = IF TrailAtr # 0 THEN [plan EXCEPT !.highest = high] ELSE plan
      BY <1>1, <3>1, <3>2, <3>3
    <3>5. /\ [plan EXCEPT !.highest = high] \in Plan
          /\ [plan EXCEPT !.highest = high].stop = plan.stop
          /\ [plan EXCEPT !.highest = high].target = plan.target
      BY DEF Plan
    <3>6. plans'[i] \in Plan /\ plans'[i].stop = plans[i].stop /\ plans'[i].target = plans[i].target
      BY <3>2, <3>4, <3>5
    <3>7. plans'[i].stop # NoPlan.stop
      BY <3>6 DEF Plan, NoPlan, None
    <3>. QED
      BY <3>6, <3>7
  <2>5. plans' \in [Instruments -> Plan \cup {NoPlan}]
    <3>1. \A i \in Instruments : plans'[i] \in Plan \cup {NoPlan}
      BY <2>1, <2>2, <2>3, <2>4
    <3>2. DOMAIN plans' = Instruments /\ plans' = [i \in Instruments |-> plans'[i]]
      BY <1>1
    <3>. QED
      BY <3>1, <3>2
  <2>. QED
    BY <2>2, <2>3, <2>4, <2>5
<1>7. \A i \in Watched \ exits :
        /\ plans[i].stop < 100 * bars[i].low
        /\ plans[i].target # None => 100 * bars[i].high < plans[i].target
  <2>1. SUFFICES ASSUME NEW i \in Watched \ exits
                 PROVE  /\ plans[i].stop < 100 * bars[i].low
                        /\ plans[i].target # None => 100 * bars[i].high < plans[i].target
    OBVIOUS
  <2>2. plans[i] \in Plan /\ bars[i] \in Bars /\ StopOf(i) \in Nat /\ plans[i].stop <= StopOf(i)
    BY StopTypes
  <2>3. plans[i].stop \in Nat /\ plans[i].target \in Nat /\ bars[i].low \in Nat /\ bars[i].high \in Nat
    BY <2>2, BarTypes DEF Plan
  <2>4. ~Crossed(bars[i], StopOf(i))
    BY DEF Stopped
  <2>5. plans[i].target # None => ~Reached(bars[i], plans[i].target)
    BY DEF Reaching
  <2>. QED
    BY <2>2, <2>3, <2>4, <2>5 DEF Crossed, Reached
<1>8. \A a \in ToSet(pending) : a.instrument \notin fresh /\ a.instrument \in Instruments
  <2>1. /\ \A a \in ToSet(pending) : \E n \in DOMAIN pending : a = pending[n]
        /\ \A a \in ToSet(pending) : a \in Pending
    BY SeqDomain DEF Inv, TypeOK
  <2>. QED
    BY <1>1, <2>1 DEF Due, Pending
<1> HIDE DEF exits, price, kind
<1>9. Buyers(pending') = Buyers(pending)
  BY <1>1
<1>10. /\ DatedIds' /\ SwitchIsDated' /\ EntriesAreKnown' /\ CostsAreHeld'
       /\ SlotsAreKept' /\ WindowIsKept' /\ EntriesArePaced'
       /\ \A j \in Instruments : j \in Held' <=> entries'[j] # NoEntry
  BY <1>1, <1>2, <1>3, <1>9, ClosingKeeps
<1>11. /\ account' \in Account /\ Held' = Held \ exits
       /\ paid' \in [Instruments -> Nat] /\ realized' \in Int /\ records' \in Seq(Record)
       /\ entries' \in [Instruments -> Entry \cup {NoEntry}]
  BY <1>1, <1>2, <1>3, ClosedAccount, ClosedBooks DEF Inv
<1>12. TypeOK'
  BY <1>1, <1>6, <1>11 DEF Inv, TypeOK
<1>13. FreshIds'
  <2>1. \A d \in Days, j \in Instruments, k \in Kinds :
           Known(account', <<d, j, k>>) <=>
             Known(account, <<d, j, k>>) \/ (d = day /\ j \in exits /\ k = kind[j])
    BY <1>1, <1>2, <1>3, ClosedIds DEF Inv
  <2>2. \A d \in Days, j \in Instruments : ~Known(account', <<d, j, "final">>)
    <3>1. "final" \in Kinds /\ "final" \notin {"stop", "target"}
      BY DEF Kinds
    <3>. QED
      BY <1>1, <1>4, <2>1, <3>1 DEF Inv, FreshIds
  <2>. QED
    BY <1>1, <1>2, <2>2 DEF FreshIds
<1>14. PositionsAreKept'
  <2>1. \A j \in Held' \cup fresh' : bars'[j] # NoBar
    BY <1>1, <1>11 DEF Inv, PositionsAreKept
  <2>2. \A j \in Instruments : j \in Held' <=> plans'[j] # NoPlan
    <3>1. \A j \in Instruments : j \in Held <=> plans[j] # NoPlan
      BY <1>1 DEF Inv, PositionsAreKept
    <3>2. Watched \subseteq Held
      BY DEF Watched
    <3>. QED
      BY <1>2, <1>6, <1>11, <3>1, <3>2
  <2>. QED
    BY <1>10, <2>1, <2>2 DEF PositionsAreKept
<1>15. PendingFits'
  <2>1. \A a \in ToSet(pending) : /\ a.instrument \in Held' <=> a.instrument \in Held
                                  /\ plans'[a.instrument] = plans[a.instrument]
    BY <1>2, <1>6, <1>8, <1>11 DEF Watched
  <2>. QED
    BY <1>1, <1>8, <2>1 DEF Inv, PendingFits
<1>16. LevelsAreExecuted'
  <2>1. \A i \in Held' \cap fresh' : i \in Watched \ exits
    BY <1>1, <1>5, <1>11
  <2>. QED
    BY <1>1, <1>6, <1>7, <2>1 DEF LevelsAreExecuted
<1>17. SomeClosed
  BY <1>1, <1>2, <1>3 DEF SomeClosed
<1>. QED
  BY <1>10, <1>12, <1>13, <1>14, <1>15, <1>16, <1>17 DEF Inv

-----------------------------------------------------------------------------
(* The end of the data *)

LEMMA FinishKeeps ==
  ASSUME Inv, Finish
  PROVE  Inv' /\ SomeClosed
<1> DEFINE exits == Held
           price == [i \in Held |-> SellPrice(100 * bars[i].close)]
           kind == [i \in Held |-> "final"]
<1>1. /\ phase = "open" /\ day # 0 /\ Closed(exits, price, kind) /\ phase' = "done"
      /\ UNCHANGED <<risk, tripped, day, bars, fresh, pending, plans, recent>>
  BY DEF Finish
<1>2. Closable(exits, price, kind)
  <2>1. ASSUME NEW i \in Held
        PROVE  /\ price[i] \in Nat \ {0} /\ ~Known(account, <<day, i, "final">>) /\ entries[i] # NoEntry
    <3>1. i \in Instruments /\ day \in Days
      BY <1>1, IdTypes DEF Held, Inv, TypeOK
    <3>2. bars[i] \in Bars
      BY <3>1 DEF Inv, TypeOK, PositionsAreKept
    <3>3. price[i] \in Nat \ {0}
      BY <3>2, FillTypes
    <3>. QED
      BY <1>1, <3>1, <3>3 DEF Inv, FreshIds, PositionsAreKept
  <2>. QED
    BY <2>1 DEF Closable, ExitKinds
<1> HIDE DEF exits, price, kind
<1>3. Buyers(pending') = Buyers(pending)
  BY <1>1
<1>4. /\ DatedIds' /\ SwitchIsDated' /\ EntriesAreKnown' /\ CostsAreHeld'
      /\ SlotsAreKept' /\ WindowIsKept' /\ EntriesArePaced'
      /\ \A j \in Instruments : j \in Held' <=> entries'[j] # NoEntry
  BY <1>1, <1>2, <1>3, ClosingKeeps
<1>5. /\ account' \in Account /\ Held' = Held \ exits
      /\ paid' \in [Instruments -> Nat] /\ realized' \in Int /\ records' \in Seq(Record)
      /\ entries' \in [Instruments -> Entry \cup {NoEntry}]
  BY <1>1, <1>2, ClosedAccount, ClosedBooks DEF Inv
<1>6. TypeOK'
  BY <1>1, <1>5 DEF Inv, TypeOK
<1>7. FreshIds' /\ LevelsAreExecuted'
  BY <1>1 DEF FreshIds, LevelsAreExecuted
<1>8. PositionsAreKept'
  BY <1>1, <1>4, <1>5 DEF Inv, PositionsAreKept
<1>9. PendingFits'
  BY <1>1 DEF Inv, PendingFits
<1>10. SomeClosed
  BY <1>1, <1>2 DEF SomeClosed
<1>. QED
  BY <1>4, <1>6, <1>7, <1>8, <1>9, <1>10 DEF Inv
-----------------------------------------------------------------------------
(* The top of an iteration *)

\* The engine is marked, and the switch cleared after the cooldown.
LEMMA OpenRisk ==
  ASSUME Inv, NEW d \in Days, NEW arrived \in [Instruments -> Bars \cup {NoBar}], Open(d, arrived)
  PROVE  /\ bars' \in [Instruments -> Bars \cup {NoBar}] /\ d > day /\ d \in Nat \ {0} /\ day' = d
         /\ risk' \in Risk /\ tripped' \in 0 .. MaxDays
         /\ LET marked == Marked(risk, OpenEquity(bars'), d)
            IN /\ marked.kill \in BOOLEAN /\ (risk.kill => marked.kill)
               /\ risk'.kill <=> marked.kill /\ ~CooledDown(marked, d)
               /\ tripped' = TrippedAt(marked, d)
<1> DEFINE marked == Marked(risk, OpenEquity(bars'), d)
<1>1. /\ d > day /\ day' = d /\ fresh' = {i \in Instruments : arrived[i] # NoBar}
      /\ bars' = [i \in Instruments |-> IF i \in fresh' THEN arrived[i] ELSE bars[i]]
      /\ risk' = (IF CooledDown(marked, d) THEN Reset(marked) ELSE marked)
      /\ tripped' = TrippedAt(marked, d)
  BY DEF Open
<1>2. /\ account \in Account /\ risk \in Risk /\ bars \in [Instruments -> Bars \cup {NoBar}]
      /\ tripped \in 0 .. MaxDays
  BY DEF Inv, TypeOK
<1>3. bars' \in [Instruments -> Bars \cup {NoBar}]
  BY <1>1, <1>2
<1>4. OpenEquity(bars') \in Nat
  <2>1. PICK quotes \in [Instruments -> Bars \cup {NoBar}] : quotes = bars'
    BY <1>3
  <2>2. PICK acc \in Account : acc = account
    BY <1>2
  <2>3. Opens(quotes) \in [Instruments -> Nat]
    <3>1. \A i \in Instruments : quotes[i] # NoBar => quotes[i].open \in Nat
      BY BarTypes
    <3>. QED
      BY <3>1 DEF Opens
  <2>4. Equity(acc, Opens(quotes)) \in Nat
    BY <2>3, EquityType
  <2>. QED
    BY <2>1, <2>2, <2>4 DEF OpenEquity
<1>5. d \in Nat \ {0} /\ d \in 0 .. MaxDays
  BY IdTypes
<1>6. /\ marked \in Risk /\ marked.kill = (risk.kill \/ Breached(marked.peak, OpenEquity(bars')))
  <2>1. PICK equity \in Int, r \in Risk : equity = OpenEquity(bars') /\ r = risk
    BY <1>2, <1>4
  <2>2. /\ Marked(r, equity, d) \in Risk
        /\ Marked(r, equity, d).kill = (r.kill \/ Breached(Marked(r, equity, d).peak, equity))
    BY <1>5, MarkedRecord
  <2>. QED
    BY <2>1, <2>2
<1> HIDE DEF marked
<1>7. marked.kill \in BOOLEAN /\ (risk.kill => marked.kill)
  <2>1. marked.kill \in BOOLEAN
    BY <1>6 DEF Risk
  <2>. QED
    BY <1>6, <2>1, Zenon
<1>8. risk' \in Risk /\ (risk'.kill <=> marked.kill /\ ~CooledDown(marked, d))
  <2>1. PICK m \in Risk : m = marked
    BY <1>6
  <2>2. Reset(m) \in Risk /\ Reset(m).kill = FALSE
    BY ResetRecord
  <2>3. risk' = IF CooledDown(marked, d) THEN Reset(m) ELSE m
    BY <1>1, <2>1
  <2>. QED
    BY <1>7, <2>1, <2>2, <2>3
<1>9. tripped' \in 0 .. MaxDays
  <2>1. tripped' \in {0, d, tripped}
    <3>1. CASE Cooldown = 0
      BY <1>1, <3>1 DEF TrippedAt
    <3>2. CASE Cooldown # 0 /\ (~marked.kill \/ CooledDown(marked, d))
      BY <1>1, <3>2 DEF TrippedAt
    <3>3. CASE Cooldown # 0 /\ ~(~marked.kill \/ CooledDown(marked, d))
      BY <1>1, <3>3 DEF TrippedAt
    <3>. QED
      BY <3>1, <3>2, <3>3
  <2>. QED
    BY <1>2, <1>5, <2>1, ConfigAssumption
<1>. QED
  BY <1>1, <1>3, <1>5, <1>7, <1>8, <1>9 DEF marked

LEMMA OpenKeeps ==
  ASSUME Inv, NEW d \in Days, NEW arrived \in [Instruments -> Bars \cup {NoBar}], Open(d, arrived)
  PROVE  Inv'
<1> DEFINE marked == Marked(risk, OpenEquity(bars'), d)
<1>1. /\ phase = "open" /\ fresh' = {i \in Instruments : arrived[i] # NoBar}
      /\ bars' = [i \in Instruments |-> IF i \in fresh' THEN arrived[i] ELSE bars[i]]
      /\ phase' = "execute"
      /\ UNCHANGED <<account, paid, pending, plans, entries, recent, records, realized>>
  BY DEF Open
<1>2. /\ bars' \in [Instruments -> Bars \cup {NoBar}] /\ d > day /\ d \in Nat \ {0} /\ day' = d
      /\ risk' \in Risk /\ tripped' \in 0 .. MaxDays
      /\ marked.kill \in BOOLEAN /\ (risk.kill => marked.kill)
      /\ risk'.kill <=> marked.kill /\ ~CooledDown(marked, d)
      /\ tripped' = TrippedAt(marked, d)
  BY OpenRisk
<1>3. Held' = Held /\ EntryDays' = EntryDays
  BY <1>1 DEF Held, EntryDays
<1>4. day \in Nat /\ d \in 0 .. MaxDays /\ tripped \in Nat
  BY IdTypes DEF Inv, TypeOK
<1> HIDE DEF marked
<1>5. TypeOK'
  BY <1>1, <1>2, <1>4 DEF Inv, TypeOK
<1>6. DatedIds'
  BY <1>1, <1>2, <1>4, IdTypes DEF Inv, DatedIds
<1>7. FreshIds'
  <2>1. \A i \in Instruments, k \in Kinds : ~Known(account, <<d, i, k>>)
    BY <1>2, <1>4 DEF Inv, DatedIds
  <2>2. \A a \in ToSet(pending) : a.instrument \in Instruments
    <3>1. \A a \in ToSet(pending) : a \in Pending
      BY SeqDomain DEF Inv, TypeOK
    <3>. QED
      BY <3>1 DEF Pending
  <2>3. \A k \in {"stop", "target", "buy", "sell", "pyramid"} : k \in Kinds
    BY DEF Kinds
  <2>. QED
    BY <1>1, <1>2, <2>1, <2>2, <2>3 DEF Inv, FreshIds
<1>8. PositionsAreKept'
  <2>1. \A i \in Held' \cup fresh' : bars'[i] # NoBar
    BY <1>1, <1>3 DEF Inv, PositionsAreKept, Held
  <2>. QED
    BY <1>1, <1>3, <2>1 DEF Inv, PositionsAreKept
<1>9. PendingFits'
  BY <1>1, <1>3 DEF Inv, PendingFits
<1>10. SlotsAreKept'
  BY <1>1, <1>3 DEF Inv, SlotsAreKept
<1>11. WindowIsKept'
  <2>1. ASSUME NEW o \in Days \X Instruments, o[1] >= d - EntryPeriod PROVE o[1] >= day - EntryPeriod
    <3>1. o[1] \in Nat /\ EntryPeriod \in Nat
      BY IdTypes, ConfigAssumption
    <3>2. PICK n \in Nat : n = o[1] /\ n >= d - EntryPeriod
      BY <2>1, <3>1
    <3>. QED
      BY <1>2, <1>4, <3>1, <3>2
  <2>2. InWindow' \subseteq InWindow
    BY <1>1, <1>2, <2>1 DEF InWindow, Inv, TypeOK
  <2>3. /\ Cardinality(InWindow') <= Cardinality(InWindow)
        /\ Cardinality(InWindow') \in Nat /\ Cardinality(InWindow) \in Nat
    BY <2>2, WindowTypes, FS_Subset, FS_CardinalityType DEF Inv
  <2>4. Buyers(pending') = Buyers(pending) /\ Cardinality(Buyers(pending)) \in Nat /\ MaxNewEntries \in Nat
    BY <1>1, BuyersTypes, ConfigAssumption DEF Inv, TypeOK
  <2>5. EntryDays \subseteq Days \X Instruments
    BY DEF EntryDays
  <2>. QED
    BY <1>1, <1>2, <1>3, <2>1, <2>3, <2>4, <2>5 DEF Inv, WindowIsKept
<1>12. EntriesArePaced' /\ LevelsAreExecuted'
  BY <1>1, <1>3 DEF Inv, EntriesArePaced, LevelsAreExecuted
<1>13. SwitchIsDated'
  <2>1. tripped' # 0 => risk'.kill /\ Cooldown # 0
    BY <1>2 DEF Inv, SwitchIsDated, TrippedAt
  <2>2. risk'.kill /\ Cooldown # 0 => tripped' # 0 /\ tripped' <= d
    BY <1>2, <1>4 DEF Inv, SwitchIsDated, TrippedAt
  <2>3. ASSUME tripped' # 0, NEW e \in Days, NEW i \in Instruments, NEW k \in {"buy", "pyramid"},
               Known(account, <<e, i, k>>)
        PROVE  e < tripped'
    <3>1. e <= day /\ e \in Nat
      BY <2>3, IdTypes DEF Inv, DatedIds, Kinds
    <3>2. CASE tripped = 0
      <4>1. tripped' = d
        BY <1>2, <2>3, <3>2 DEF TrippedAt
      <4>. QED
        BY <1>2, <1>4, <3>1, <4>1
    <3>3. CASE tripped # 0
      <4>1. tripped' = tripped
        BY <2>3, <1>2, <3>3 DEF TrippedAt
      <4>. QED
        BY <2>3, <3>3, <4>1 DEF Inv, SwitchIsDated
    <3>. QED
      BY <3>2, <3>3
  <2>. QED
    BY <1>1, <1>2, <2>1, <2>2, <2>3 DEF SwitchIsDated
<1>14. EntriesAreKnown' /\ CostsAreHeld'
  BY <1>1, <1>3 DEF Inv, EntriesAreKnown, CostsAreHeld
<1>. QED
  BY <1>5, <1>6, <1>7, <1>8, <1>9, <1>10, <1>11, <1>12, <1>13, <1>14 DEF Inv

\* The step of CooldownIsServed.
LEMMA OpenServes ==
  ASSUME Inv, NEW d \in Days, NEW arrived \in [Instruments -> Bars \cup {NoBar}], Open(d, arrived)
  PROVE  LET tripping == Marked(risk, OpenEquity(bars'), day').kill
         IN /\ tripping /\ ~risk'.kill =>
                 /\ risk.kill
                 /\ \A e \in Days, i \in Instruments, k \in {"buy", "pyramid"} :
                      Known(account, <<e, i, k>>) => day' - e > Cooldown
            /\ risk'.kill /\ Cooldown # 0 => tripped' # 0 /\ day' - tripped' < Cooldown
<1> DEFINE marked == Marked(risk, OpenEquity(bars'), d)
<1>1. /\ d > day /\ d \in Nat \ {0} /\ day' = d /\ marked.kill \in BOOLEAN
      /\ risk'.kill <=> marked.kill /\ ~CooledDown(marked, d)
      /\ tripped' = TrippedAt(marked, d)
  BY OpenRisk
<1>2. Cooldown \in Nat /\ tripped \in Nat
  BY ConfigAssumption DEF Inv, TypeOK
<1> HIDE DEF marked
<1>3. ASSUME marked.kill, ~risk'.kill
      PROVE  /\ risk.kill
             /\ \A e \in Days, i \in Instruments, k \in {"buy", "pyramid"} :
                  Known(account, <<e, i, k>>) => d - e > Cooldown
  <2>1. tripped # 0 /\ d - tripped >= Cooldown
    BY <1>1, <1>3 DEF CooledDown
  <2>2. \A e \in Days, i \in Instruments, k \in {"buy", "pyramid"} :
          Known(account, <<e, i, k>>) => e < tripped /\ e \in Nat
    BY <2>1, IdTypes DEF Inv, SwitchIsDated
  <2>. QED
    BY <1>1, <1>2, <2>1, <2>2 DEF Inv, SwitchIsDated
<1>4. ASSUME risk'.kill, Cooldown # 0 PROVE tripped' # 0 /\ d - tripped' < Cooldown
  BY <1>1, <1>2, <1>4 DEF CooledDown, TrippedAt
<1>. QED
  BY <1>1, <1>3, <1>4 DEF marked

-----------------------------------------------------------------------------
(* The rest of an iteration *)

\* A list of actions, one for each instrument of a set.
LEMMA Schedule ==
  ASSUME NEW S \in SUBSET Instruments, NEW f, \A i \in S : f[i] \in Pending /\ f[i].instrument = i,
         NEW q, \E order \in SetToSeqs(S) : q = [n \in DOMAIN order |-> f[order[n]]]
  PROVE  q \in Seq(Pending) /\ Distinct(q) /\ ToSet(q) = {f[i] : i \in S}
         /\ \A a \in ToSet(q) : a.instrument \in S
<1>1. PICK order \in SetToSeqs(S) : q = [n \in DOMAIN order |-> f[order[n]]]
  OBVIOUS
<1>2. q \in Seq(Pending) /\ Distinct(q) /\ ToSet(q) = {f[i] : i \in S}
  BY <1>1, DistinctListed
<1>. QED
  BY <1>2

\* What a scan adds to the list.
Added(old, new, best) ==
  /\ new \in Seq(Pending) /\ Distinct(new)
  /\ ToSet(new) = ToSet(old) \cup {Action(i, "PYRAMID") : i \in Growing}
                             \cup {Action(i, "SELL") : i \in Leaving}
                             \cup {Buying(i) : i \in best}

LEMMA ActionTypes ==
  ASSUME NEW i \in Instruments, NEW action \in {"SELL", "PYRAMID"}
  PROVE  /\ Action(i, action) \in Pending /\ Action(i, action).instrument = i
         /\ Action(i, action).action = action
BY DEF Action, Pending, None

LEMMA BuyingTypes ==
  ASSUME Inv, NEW i \in Candidates
  PROVE  /\ i \in fresh /\ i \in Instruments /\ i \notin Held
         /\ Buying(i) \in Pending /\ Buying(i).instrument = i /\ Buying(i).action = "BUY"
         /\ 0 < Buying(i).stop /\ Buying(i).stop < 100 * Buying(i).close
<1>1. i \in fresh /\ i \in Instruments /\ i \notin Held /\ bars[i].close > bars[i].atr * StopAtr
  BY DEF Candidates, Inv, TypeOK
<1>2. bars[i] \in Bars
  BY <1>1 DEF Inv, TypeOK, PositionsAreKept
<1>3. PICK close \in Nat \ {0}, away \in Nat \ {0} : close = bars[i].close /\ away = bars[i].atr * StopAtr
  <2>1. bars[i].close \in Nat \ {0} /\ bars[i].atr \in Nat \ {0} /\ StopAtr \in Nat \ {0}
    BY <1>2, BarTypes, ConfigAssumption
  <2>2. \A a, b \in Nat \ {0} : a * b \in Nat \ {0}
    OBVIOUS
  <2>. QED
    BY <2>1, <2>2
<1>4. 100 * (close - away) \in Nat \ {0} /\ 100 * (close - away) < 100 * close
  BY <1>1, <1>3
<1>5. PICK target \in Nat : target = IF UseTarget THEN 100 * close + RewardPct * (close - (close - away)) ELSE None
  <2>1. RewardPct \in Nat
    BY RatesAssumption
  <2>2. PICK reward \in Nat : reward = RewardPct * (close - (close - away))
    <3>1. close - (close - away) = away
      OBVIOUS
    <3>. QED
      BY <2>1, <3>1
  <2>. QED
    BY <2>2 DEF None
<1>6. Buying(i) = [instrument |-> i, action |-> "BUY", close |-> close, stop |-> 100 * (close - away),
                   target |-> target]
  BY <1>3, <1>5 DEF Buying
<1>. QED
  BY <1>1, <1>4, <1>6 DEF Pending

LEMMA ScanAdds ==
  ASSUME Inv, NEW best \in SUBSET Candidates, phase = "scan",
         NEW pyramids \in Scheduled(Growing, LAMBDA i : Action(i, "PYRAMID")),
         NEW sells \in Scheduled(Leaving, LAMBDA i : Action(i, "SELL")),
         NEW buys \in Scheduled(best, Buying)
  PROVE  Added(pending, pending \o pyramids \o sells \o buys, best)
<1>1. /\ Growing \subseteq Held \cap fresh /\ Leaving \subseteq Held \cap fresh
      /\ Growing \subseteq Instruments /\ Leaving \subseteq Instruments
      /\ best \subseteq fresh \ Held /\ best \subseteq Instruments
      /\ Growing \cap Leaving = {}
  <2>1. Held \subseteq Instruments /\ fresh \subseteq Instruments
    BY DEF Held, Inv, TypeOK
  <2>. QED
    BY <2>1 DEF Growing, Leaving, Candidates, Rising
<1>2. /\ pending \in Seq(Pending) /\ Distinct(pending)
      /\ \A a \in ToSet(pending) : a.instrument \notin fresh
  BY DEF Inv, TypeOK, PendingFits
<1>3. /\ pyramids \in Seq(Pending) /\ Distinct(pyramids)
      /\ ToSet(pyramids) = {Action(i, "PYRAMID") : i \in Growing}
      /\ \A a \in ToSet(pyramids) : a.instrument \in Growing
  <2> DEFINE f == [i \in Growing |-> Action(i, "PYRAMID")]
  <2>1. PICK order \in SetToSeqs(Growing) : pyramids = [n \in DOMAIN order |-> Action(order[n], "PYRAMID")]
    BY DEF Scheduled
  <2>2. \A n \in DOMAIN order : order[n] \in Growing
    BY <1>1, OrderOf, FS_Subset, HoldingsAssumption
  <2>3. pyramids = [n \in DOMAIN order |-> f[order[n]]]
    BY <2>1, <2>2
  <2>4. \A i \in Growing : f[i] = Action(i, "PYRAMID") /\ f[i] \in Pending /\ f[i].instrument = i
    BY <1>1, ActionTypes
  <2> HIDE DEF f
  <2>5. PICK g, S, q : g = f /\ S = Growing /\ q = pyramids
    OBVIOUS
  <2>6. q \in Seq(Pending) /\ Distinct(q) /\ ToSet(q) = {g[i] : i \in S} /\ \A a \in ToSet(q) : a.instrument \in S
    BY <1>1, <2>3, <2>4, <2>5, Schedule
  <2>. QED
    BY <2>4, <2>5, <2>6
<1>4. /\ sells \in Seq(Pending) /\ Distinct(sells)
      /\ ToSet(sells) = {Action(i, "SELL") : i \in Leaving}
      /\ \A a \in ToSet(sells) : a.instrument \in Leaving
  <2> DEFINE f == [i \in Leaving |-> Action(i, "SELL")]
  <2>1. PICK order \in SetToSeqs(Leaving) : sells = [n \in DOMAIN order |-> Action(order[n], "SELL")]
    BY DEF Scheduled
  <2>2. \A n \in DOMAIN order : order[n] \in Leaving
    BY <1>1, OrderOf, FS_Subset, HoldingsAssumption
  <2>3. sells = [n \in DOMAIN order |-> f[order[n]]]
    BY <2>1, <2>2
  <2>4. \A i \in Leaving : f[i] = Action(i, "SELL") /\ f[i] \in Pending /\ f[i].instrument = i
    BY <1>1, ActionTypes
  <2> HIDE DEF f
  <2>5. PICK g, S, q : g = f /\ S = Leaving /\ q = sells
    OBVIOUS
  <2>6. q \in Seq(Pending) /\ Distinct(q) /\ ToSet(q) = {g[i] : i \in S} /\ \A a \in ToSet(q) : a.instrument \in S
    BY <1>1, <2>3, <2>4, <2>5, Schedule
  <2>. QED
    BY <2>4, <2>5, <2>6
<1>5. /\ buys \in Seq(Pending) /\ Distinct(buys)
      /\ ToSet(buys) = {Buying(i) : i \in best}
      /\ \A a \in ToSet(buys) : a.instrument \in best
  <2> DEFINE f == [i \in best |-> Buying(i)]
  <2>1. PICK order \in SetToSeqs(best) : buys = [n \in DOMAIN order |-> Buying(order[n])]
    BY DEF Scheduled
  <2>2. \A n \in DOMAIN order : order[n] \in best
    BY <1>1, OrderOf, FS_Subset, HoldingsAssumption
  <2>3. buys = [n \in DOMAIN order |-> f[order[n]]]
    BY <2>1, <2>2
  <2>4. \A i \in best : f[i] = Buying(i) /\ f[i] \in Pending /\ f[i].instrument = i
    BY BuyingTypes
  <2> HIDE DEF f
  <2>5. PICK g, q : g = f /\ q = buys
    OBVIOUS
  <2>6. q \in Seq(Pending) /\ Distinct(q) /\ ToSet(q) = {g[i] : i \in best} /\ \A a \in ToSet(q) : a.instrument \in best
    BY <1>1, <2>3, <2>4, <2>5, Schedule
  <2>. QED
    BY <2>4, <2>5, <2>6
<1>6. PICK p, a, b, c : p = pending /\ a = pyramids /\ b = sells /\ c = buys
  OBVIOUS
<1>7. /\ p \o a \in Seq(Pending) /\ Distinct(p \o a) /\ ToSet(p \o a) = ToSet(p) \cup ToSet(a)
  <2>1. \A x \in ToSet(p), y \in ToSet(a) : x.instrument # y.instrument
    BY <1>1, <1>2, <1>3, <1>6
  <2>. QED
    BY <1>2, <1>3, <1>6, <2>1, PendingJoined
<1>8. PICK pa : pa = p \o a
  OBVIOUS
<1>9. pa \o b \in Seq(Pending) /\ Distinct(pa \o b) /\ ToSet(pa \o b) = ToSet(p) \cup ToSet(a) \cup ToSet(b)
  <2>1. \A x \in ToSet(pa), y \in ToSet(b) : x.instrument # y.instrument
    BY <1>1, <1>2, <1>3, <1>4, <1>6, <1>7, <1>8
  <2>2. pa \o b \in Seq(Pending) /\ Distinct(pa \o b) /\ ToSet(pa \o b) = ToSet(pa) \cup ToSet(b)
    BY <1>4, <1>6, <1>7, <1>8, <2>1, PendingJoined
  <2>. QED
    BY <1>7, <1>8, <2>2
<1>10. PICK pab : pab = pa \o b
  OBVIOUS
<1>11. /\ pab \o c \in Seq(Pending) /\ Distinct(pab \o c)
       /\ ToSet(pab \o c) = ToSet(p) \cup ToSet(a) \cup ToSet(b) \cup ToSet(c)
  <2>1. \A x \in ToSet(pab), y \in ToSet(c) : x.instrument # y.instrument
    BY <1>1, <1>2, <1>3, <1>4, <1>5, <1>6, <1>9, <1>10
  <2>2. pab \o c \in Seq(Pending) /\ Distinct(pab \o c) /\ ToSet(pab \o c) = ToSet(pab) \cup ToSet(c)
    BY <1>5, <1>6, <1>9, <1>10, <2>1, PendingJoined
  <2>. QED
    BY <1>9, <1>10, <2>2
<1>12. pab \o c = pending \o pyramids \o sells \o buys
  BY <1>6, <1>8, <1>10
<1>. QED
  BY <1>3, <1>4, <1>5, <1>6, <1>11, <1>12 DEF Added

LEMMA ScanKeeps ==
  ASSUME Inv, Scan
  PROVE  Inv'
<1>1. /\ phase = "scan" /\ phase' = "open"
      /\ recent' = (IF MaxNewEntries = 0 THEN recent ELSE InWindow)
      /\ UNCHANGED <<account, paid, risk, tripped, day, bars, fresh, plans, entries, records, realized>>
  BY DEF Scan
<1>2. PICK best \in SUBSET Candidates :
        /\ Cardinality(best) = Lower(Allowed, Cardinality(Candidates))
        /\ Added(pending, pending', best)
  <2>1. PICK best \in kSubset(Lower(Allowed, Cardinality(Candidates)), Candidates) :
          \E pyramids \in Scheduled(Growing, LAMBDA i : Action(i, "PYRAMID")),
             sells \in Scheduled(Leaving, LAMBDA i : Action(i, "SELL")),
             buys \in Scheduled(best, Buying) :
            pending' = pending \o pyramids \o sells \o buys
    BY DEF Scan
  <2>2. best \in SUBSET Candidates /\ Cardinality(best) = Lower(Allowed, Cardinality(Candidates))
    BY DEF kSubset
  <2>3. Added(pending, pending', best)
    BY <1>1, <2>1, <2>2, ScanAdds
  <2>. QED
    BY <2>2, <2>3
<1>3. /\ pending' \in Seq(Pending) /\ Distinct(pending')
      /\ ToSet(pending') = ToSet(pending) \cup {Action(i, "PYRAMID") : i \in Growing}
                             \cup {Action(i, "SELL") : i \in Leaving}
                             \cup {Buying(i) : i \in best}
  BY <1>2 DEF Added
<1>4. /\ Growing \subseteq Held /\ Growing \subseteq Instruments /\ Leaving \subseteq Held /\ Leaving \subseteq Instruments
      /\ \A i \in Growing : plans[i].additions < MaxAdditions
      /\ best \subseteq Instruments /\ best \subseteq fresh /\ best \cap Held = {}
      /\ \A i \in best : /\ Buying(i).instrument = i /\ Buying(i).action = "BUY"
                         /\ 0 < Buying(i).stop /\ Buying(i).stop < 100 * Buying(i).close
  <2>1. Held \subseteq Instruments
    BY DEF Held
  <2>. QED
    BY <2>1, BuyingTypes DEF Growing, Leaving
<1>5. /\ \A i \in Growing : Action(i, "PYRAMID").instrument = i /\ Action(i, "PYRAMID").action = "PYRAMID"
      /\ \A i \in Leaving : Action(i, "SELL").instrument = i /\ Action(i, "SELL").action = "SELL"
  BY <1>4, ActionTypes
<1>6. Held' = Held /\ EntryDays' = EntryDays
  BY <1>1 DEF Held, EntryDays
<1>7. Buyers(pending') = Buyers(pending) \cup best /\ Buyers(pending) \cap best = {}
  <2>1. \A a \in ToSet(pending) : a.instrument \notin fresh
    BY <1>1 DEF Inv, PendingFits
  <2>2. Buyers(pending) \cap best = {}
    BY <1>4, <2>1 DEF Buyers
  <2>3. ASSUME NEW i \in Instruments
        PROVE  i \in Buyers(pending') <=> i \in Buyers(pending) \/ i \in best
    BY <1>3, <1>4, <1>5 DEF Buyers
  <2>. QED
    BY <1>4, <2>2, <2>3 DEF Buyers
<1>8. /\ Cardinality(Buyers(pending')) = Cardinality(Buyers(pending)) + Cardinality(best)
      /\ PendingBuys = Cardinality(Buyers(pending))
      /\ Cardinality(Buyers(pending)) \in Nat /\ Cardinality(best) \in Nat
      /\ best # {} => Cardinality(best) # 0
  <2>1. IsFiniteSet(best) /\ Cardinality(best) \in Nat /\ IsFiniteSet(Buyers(pending)) /\ Cardinality(Buyers(pending)) \in Nat
    BY <1>4, HoldingsAssumption, FS_Subset, FS_CardinalityType, BuyersTypes DEF Inv, TypeOK
  <2>2. Cardinality(Buyers(pending) \cup best)
          = Cardinality(Buyers(pending)) + Cardinality(best) - Cardinality(Buyers(pending) \cap best)
    BY <2>1, FS_Union
  <2>3. Cardinality(Buyers(pending) \cap best) = 0
    BY <1>7, FS_EmptySet
  <2>4. PendingBuys = Cardinality(Buyers(pending))
    BY BuysAreBuyers DEF PendingBuys, Inv, TypeOK, PendingFits
  <2>5. best # {} => Cardinality(best) # 0
    BY <2>1, FS_EmptySet
  <2>. QED
    BY <1>7, <2>1, <2>2, <2>3, <2>4, <2>5
<1>9. Cardinality(Held) \in Nat /\ Cardinality(InWindow) \in Nat /\ Slots \in Nat /\ MaxNewEntries \in Nat
  BY HeldTypes, WindowTypes, ConfigAssumption DEF Inv
<1>10. Cardinality(best) <= Allowed /\ Allowed \in Int
  <2>1. Cardinality(Candidates) \in Nat
    <3>1. Candidates \in SUBSET Instruments
      BY DEF Candidates, Inv, TypeOK
    <3>. QED
      BY <3>1, HoldingsAssumption, FS_Subset, FS_CardinalityType
  <2>2. Allowed \in Int
    BY <1>8, <1>9 DEF Allowed, Vacant, Lower, Higher
  <2>. QED
    BY <1>2, <2>1, <2>2 DEF Lower
<1>11. /\ Cardinality(best) # 0 => Cardinality(best) <= Slots - Cardinality(Held) - Cardinality(Buyers(pending))
       /\ Cardinality(best) # 0 /\ MaxNewEntries # 0 =>
            Cardinality(best) <= MaxNewEntries - Cardinality(InWindow) - Cardinality(Buyers(pending))
  BY <1>8, <1>9, <1>10 DEF Allowed, Vacant, Lower, Higher
<1>12. TypeOK'
  BY <1>1, <1>3 DEF Inv, TypeOK, InWindow
<1>13. DatedIds' /\ EntriesAreKnown' /\ CostsAreHeld' /\ SwitchIsDated'
  BY <1>1, <1>6 DEF Inv, DatedIds, EntriesAreKnown, CostsAreHeld, SwitchIsDated
<1>14. FreshIds'
  BY <1>1 DEF Inv, FreshIds
<1>15. PositionsAreKept'
  BY <1>1, <1>6 DEF Inv, PositionsAreKept
<1>16. PendingFits'
  <2>1. ASSUME NEW a \in ToSet(pending')
        PROVE  /\ a.action = "BUY" => 0 < a.stop /\ a.stop < 100 * a.close
               /\ a.action = "BUY" <=> a.instrument \notin Held
               /\ a.action = "PYRAMID" => plans[a.instrument].additions < MaxAdditions
    <3>1. CASE a \in ToSet(pending)
      BY <1>1, <3>1 DEF Inv, PendingFits
    <3>2. ASSUME NEW i \in Growing, a = Action(i, "PYRAMID")
          PROVE  a.instrument = i /\ a.action = "PYRAMID" /\ i \in Held /\ plans[i].additions < MaxAdditions
      BY <1>4, <1>5, <3>2
    <3>3. ASSUME NEW i \in Leaving, a = Action(i, "SELL")
          PROVE  a.instrument = i /\ a.action = "SELL" /\ i \in Held
      BY <1>4, <1>5, <3>3
    <3>4. ASSUME NEW i \in best, a = Buying(i)
          PROVE  /\ a.instrument = i /\ a.action = "BUY" /\ i \notin Held
                 /\ 0 < a.stop /\ a.stop < 100 * a.close
      BY <1>4, <3>4
    <3>. QED
      BY <1>3, <3>1, <3>2, <3>3, <3>4
  <2>. QED
    BY <1>1, <1>3, <1>6, <2>1 DEF PendingFits
<1>17. SlotsAreKept'
  BY <1>6, <1>8, <1>9, <1>11 DEF Inv, SlotsAreKept
<1>18. WindowIsKept'
  <2>1. SUFFICES ASSUME MaxNewEntries # 0
                 PROVE  /\ recent' \subseteq EntryDays
                        /\ \A o \in EntryDays : o[1] >= day - EntryPeriod => o \in recent'
                        /\ InWindow' = InWindow
                        /\ Buyers(pending') # {} =>
                             Cardinality(InWindow) + Cardinality(Buyers(pending')) <= MaxNewEntries
    BY <1>1, <1>6 DEF WindowIsKept
  <2>2. recent' = InWindow
    BY <1>1, <2>1
  <2>3. recent' \subseteq EntryDays /\ \A o \in EntryDays : o[1] >= day - EntryPeriod => o \in recent'
    BY <2>1, <2>2 DEF Inv, WindowIsKept, InWindow
  <2>4. InWindow' = InWindow
    BY <1>1, <2>2 DEF InWindow
  <2>5. ASSUME Buyers(pending') # {}
        PROVE  Cardinality(InWindow) + Cardinality(Buyers(pending')) <= MaxNewEntries
    <3>1. CASE best = {}
      <4>1. Buyers(pending') = Buyers(pending)
        BY <1>7, <3>1
      <4>. QED
        BY <2>1, <2>5, <4>1 DEF Inv, WindowIsKept
    <3>2. CASE best # {}
      BY <1>8, <1>9, <1>11, <2>1, <3>2
    <3>. QED
      BY <3>1, <3>2
  <2>. QED
    BY <2>3, <2>4, <2>5
<1>19. EntriesArePaced' /\ LevelsAreExecuted'
  BY <1>1, <1>6 DEF Inv, EntriesArePaced, LevelsAreExecuted
<1>. QED
  BY <1>12, <1>13, <1>14, <1>15, <1>16, <1>17, <1>18, <1>19 DEF Inv

-----------------------------------------------------------------------------
(* The invariant *)

LEMMA InitKeeps == Init => Inv
<1> SUFFICES ASSUME Init PROVE Inv
  OBVIOUS
<1>1. /\ account = NewAccount /\ paid = [i \in Instruments |-> 0] /\ risk = NewRisk /\ tripped = 0
      /\ day = 0 /\ bars = [i \in Instruments |-> NoBar] /\ fresh = {} /\ phase = "open"
      /\ pending = <<>> /\ plans = [i \in Instruments |-> NoPlan]
      /\ entries = [i \in Instruments |-> NoEntry] /\ recent = {} /\ records = <<>> /\ realized = 0
  BY DEF Init
<1>2. account \in Account /\ Held = {} /\ \A id \in Ids : ~Known(account, id)
  <2>1. 100 * Capital \in Nat
    BY AccountAssumption
  <2>2. account \in Account
    BY <1>1, <2>1 DEF NewAccount, Account
  <2>3. Held = {} /\ \A id \in Ids : ~Known(account, id)
    BY <1>1 DEF NewAccount, Held, Known
  <2>. QED
    BY <2>2, <2>3
<1>3. \A d \in Days, i \in Instruments, k \in Kinds : ~Known(account, <<d, i, k>>)
  BY <1>2, IdTypes
<1>4. ToSet(pending) = {} /\ Distinct(pending) /\ pending \in Seq(Pending) /\ records \in Seq(Record)
  <2>1. \A S : <<>> \in Seq(S) /\ DOMAIN <<>> = {}
    OBVIOUS
  <2>. QED
    BY <1>1, <2>1 DEF ToSet, Distinct
<1>5. Buyers(pending) = {}
  BY <1>4 DEF Buyers
<1>6. EntryDays = {}
  BY <1>3 DEF EntryDays, Kinds
<1>7. risk \in Risk /\ risk.kill = FALSE
  BY <1>1 DEF NewRisk, Risk
<1>8. TypeOK
  BY <1>1, <1>2, <1>4, <1>7, ConfigAssumption DEF TypeOK
<1>9. DatedIds /\ FreshIds
  BY <1>1, <1>3 DEF DatedIds, FreshIds, Kinds
<1>10. PositionsAreKept /\ PendingFits /\ EntriesAreKnown /\ CostsAreHeld
  BY <1>1, <1>2, <1>4 DEF PositionsAreKept, PendingFits, EntriesAreKnown, CostsAreHeld
<1>11. SlotsAreKept
  BY <1>2, <1>5, FS_EmptySet, ConfigAssumption DEF SlotsAreKept
<1>12. WindowIsKept /\ EntriesArePaced /\ LevelsAreExecuted
  BY <1>1, <1>5, <1>6 DEF WindowIsKept, EntriesArePaced, LevelsAreExecuted
<1>13. SwitchIsDated
  BY <1>1, <1>7 DEF SwitchIsDated
<1>. QED
  BY <1>8, <1>9, <1>10, <1>11, <1>12, <1>13 DEF Inv

LEMMA NextKeeps == Inv /\ [Next]_vars => Inv'
<1> SUFFICES ASSUME Inv, [Next]_vars PROVE Inv'
  OBVIOUS
<1>1. ASSUME NEW d \in Days, NEW arrived \in [Instruments -> Bars \cup {NoBar}], Open(d, arrived)
      PROVE  Inv'
  BY <1>1, OpenKeeps
<1>2. CASE ExecuteSell
  BY <1>2, SellKeeps
<1>3. CASE ExecuteBuy
  BY <1>3, BuyKeeps
<1>4. CASE ExecutePyramid
  BY <1>4, PyramidKeeps
<1>5. CASE Exits
  BY <1>5, ExitsKeep
<1>6. CASE Scan
  BY <1>6, ScanKeeps
<1>7. CASE Finish
  BY <1>7, FinishKeeps
<1>8. CASE UNCHANGED vars
  <2>1. Held' = Held /\ EntryDays' = EntryDays /\ InWindow' = InWindow /\ Buyers(pending') = Buyers(pending)
    BY <1>8 DEF vars, Held, EntryDays, InWindow
  <2>2. TypeOK' /\ DatedIds' /\ FreshIds' /\ PositionsAreKept' /\ PendingFits'
    BY <1>8, <2>1 DEF vars, Inv, TypeOK, DatedIds, FreshIds, PositionsAreKept, PendingFits
  <2>3. SlotsAreKept' /\ WindowIsKept' /\ EntriesArePaced' /\ LevelsAreExecuted'
    BY <1>8, <2>1 DEF vars, Inv, SlotsAreKept, WindowIsKept, EntriesArePaced, LevelsAreExecuted
  <2>4. SwitchIsDated' /\ EntriesAreKnown' /\ CostsAreHeld'
    BY <1>8, <2>1 DEF vars, Inv, SwitchIsDated, EntriesAreKnown, CostsAreHeld
  <2>. QED
    BY <2>2, <2>3, <2>4 DEF Inv
<1>. QED
  BY <1>1, <1>2, <1>3, <1>4, <1>5, <1>6, <1>7, <1>8 DEF Next

LEMMA InductiveInvariant == Spec => []Inv
<1>. QED
  BY InitKeeps, NextKeeps, PTL DEF Spec

\* Every variable keeps its type: a position, its plan and its entry are
\* records of the code, orders are placed under the ids of the loop, the cash is
\* never negative (_portfolio and the dictionaries of run).
THEOREM TypeCorrect == Spec => []TypeOK
<1>1. Inv => TypeOK
  BY DEF Inv
<1>. QED
  BY <1>1, InductiveInvariant, PTL

\* Positions and pending BUYs together never exceed max_positions, whatever the
\* data, the other options and the gaps between an instrument's bars.
THEOREM SlotsAreEnough == Spec => []SlotsAreReserved
<1>1. ASSUME Inv PROVE SlotsAreReserved
  <2>1. PendingBuys = Cardinality(Buyers(pending))
    BY <1>1, BuysAreBuyers DEF PendingBuys, Inv, TypeOK, PendingFits
  <2>. QED
    BY <1>1, <2>1 DEF Inv, SlotsAreKept, SlotsAreReserved
<1>. QED
  BY <1>1, InductiveInvariant, PTL

\* In any window of the period that ends with an entry there are at most
\* max_new_entries_per_period entries, however long before they were decided.
THEOREM PaceIsKept == Spec => []EntriesArePaced
<1>1. Inv => EntriesArePaced
  BY DEF Inv
<1>. QED
  BY <1>1, InductiveInvariant, PTL

\* A pending action finds what it was decided for: run looks up the plan and the
\* position of an action that may be many bars old.
THEOREM PendingActionsFit == Spec => []PlansFitPositions
<1>1. ASSUME Inv PROVE PlansFitPositions
  <2>1. \A n \in DOMAIN pending : pending[n] \in ToSet(pending)
    BY <1>1, SeqDomain DEF Inv, TypeOK
  <2>. QED
    BY <1>1, <2>1 DEF Inv, PositionsAreKept, PendingFits, Distinct, PlansFitPositions
<1>. QED
  BY <1>1, InductiveInvariant, PTL

\* After _execute_stops_and_targets no position with a bar has a level which
\* that bar crossed.
THEOREM CrossedLevelsAreExecuted == Spec => []LevelsAreExecuted
<1>1. Inv => LevelsAreExecuted
  BY DEF Inv
<1>. QED
  BY <1>1, InductiveInvariant, PTL

\* _apply_kill_switch_cooldown clears the switch only after a whole cooldown
\* without a purchase, and never leaves it on for longer.
THEOREM CooldownIsExact == Spec => CooldownIsServed
<1> DEFINE Step == phase = "open" /\ phase' = "execute" =>
             LET tripping == Marked(risk, OpenEquity(bars'), day').kill
             IN /\ tripping /\ ~risk'.kill =>
                     /\ risk.kill
                     /\ \A d \in Days, i \in Instruments, k \in {"buy", "pyramid"} :
                          Known(account, <<d, i, k>>) => day' - d > Cooldown
                /\ risk'.kill /\ Cooldown # 0 => tripped' # 0 /\ day' - tripped' < Cooldown
<1>1. ASSUME Inv, [Next]_vars PROVE [Step]_vars
  <2>1. CASE phase = "open" /\ phase' = "execute"
    <3>1. PICK d \in Days, arrived \in [Instruments -> Bars \cup {NoBar}] : Open(d, arrived)
      BY <1>1, <2>1 DEF Next, ExecuteSell, ExecuteBuy, ExecutePyramid, PopNextDue, Exits, Scan, Finish, vars
    <3>2. Step
      BY <1>1, <3>1, OpenServes
    <3> HIDE DEF Step
    <3>. QED
      BY <3>2
  <2>2. CASE ~(phase = "open" /\ phase' = "execute")
    BY <2>2
  <2>. QED
    BY <2>1, <2>2
<1>. QED
  BY <1>1, InductiveInvariant, PTL DEF Spec, CooldownIsServed

-----------------------------------------------------------------------------
(* Lists that grow by what an order of a set says *)

\* t is s and, for each member of E, one element more.
Joined(s, t, E, f) ==
  \E b \in Bijection(E, DOMAIN t \ DOMAIN s) :
    /\ IsFiniteSet(E) /\ IsFiniteSet(DOMAIN s) /\ IsFiniteSet(DOMAIN t) /\ DOMAIN s \subseteq DOMAIN t
    /\ \A x \in E : t[b[x]] = f[x]
    /\ \A n \in DOMAIN s : t[n] = s[n]

LEMMA ListJoined ==
  ASSUME NEW R, NEW s \in Seq(R), NEW E, IsFiniteSet(E), NEW order \in SetToSeqs(E),
         NEW f, \A x \in E : f[x] \in R, NEW t, t = s \o [n \in DOMAIN order |-> f[order[n]]]
  PROVE  Joined(s, t, E, f)
<1> DEFINE q == [n \in DOMAIN order |-> f[order[n]]]
<1>1. /\ DOMAIN order = 1 .. Cardinality(E) /\ Cardinality(E) \in Nat
      /\ \A n \in DOMAIN order : order[n] \in E
      /\ \A m, n \in DOMAIN order : order[m] = order[n] => m = n
      /\ \A x \in E : \E n \in DOMAIN order : order[n] = x
  BY OrderOf
<1>2. PICK N \in Nat, L \in Nat : N = Cardinality(E) /\ L = Len(s)
  BY <1>1, SeqDomain
<1>3. q \in Seq(R) /\ Len(q) = N
  <2>1. q \in [1 .. N -> R]
    BY <1>1, <1>2
  <2> HIDE DEF q
  <2>2. q \in Seq(R)
    BY <2>1 DEF Seq
  <2>. QED
    BY <1>2, <2>1, <2>2, LenProperties
<1>4. /\ DOMAIN s = 1 .. L /\ DOMAIN t = 1 .. L + N
      /\ \A n \in 1 .. L + N : t[n] = IF n <= L THEN s[n] ELSE q[n - L]
  <2>1. t \in Seq(R) /\ Len(t) = L + N /\ \A n \in 1 .. L + N : t[n] = IF n <= L THEN s[n] ELSE q[n - L]
    <3> HIDE DEF q
    <3>1. t = s \o q
      BY DEF q
    <3>2. /\ s \o q \in Seq(R) /\ Len(s \o q) = Len(s) + Len(q)
          /\ \A n \in 1 .. Len(s) + Len(q) : (s \o q)[n] = IF n <= Len(s) THEN s[n] ELSE q[n - Len(s)]
      BY <1>3, ConcatProperties
    <3>. QED
      BY <1>2, <1>3, <3>1, <3>2
  <2>. QED
    BY <1>2, <2>1, LenProperties
<1> DEFINE at(x) == CHOOSE n \in DOMAIN order : order[n] = x
           b == [x \in E |-> L + at(x)]
<1>5. \A x \in E : at(x) \in 1 .. N /\ order[at(x)] = x
  BY <1>1, <1>2
<1>6. \A n \in 1 .. N : order[n] \in E /\ at(order[n]) = n
  BY <1>1, <1>2
<1> HIDE DEF at
<1>7. DOMAIN t \ DOMAIN s = L + 1 .. L + N /\ DOMAIN s \subseteq DOMAIN t
  BY <1>2, <1>4
<1>8. b \in Bijection(E, L + 1 .. L + N)
  <2>1. b \in [E -> L + 1 .. L + N]
    <3>1. ASSUME NEW x \in E PROVE L + at(x) \in L + 1 .. L + N
      BY <1>2, <1>5
    <3>. QED
      BY <3>1
  <2>2. \A x, y \in E : b[x] = b[y] => x = y
    BY <1>2, <1>5
  <2>3. \A m \in L + 1 .. L + N : \E x \in E : b[x] = m
    <3>1. ASSUME NEW m \in L + 1 .. L + N PROVE \E x \in E : b[x] = m
      <4>1. m - L \in 1 .. N
        BY <1>2
      <4>2. order[m - L] \in E /\ b[order[m - L]] = L + (m - L)
        BY <1>6, <4>1
      <4>. QED
        BY <1>2, <4>2
    <3>. QED
      BY <3>1
  <2> HIDE DEF b
  <2>. QED
    BY <2>1, <2>2, <2>3 DEF Bijection, Injection, Surjection, IsInjective
<1>9. \A x \in E : t[b[x]] = f[x]
  <2>1. ASSUME NEW x \in E PROVE t[b[x]] = f[x]
    <3>1. b[x] \in 1 .. L + N /\ ~(b[x] <= L) /\ b[x] - L = at(x)
      BY <1>2, <1>5
    <3>2. t[b[x]] = q[at(x)]
      BY <1>4, <3>1
    <3>. QED
      BY <1>1, <1>2, <1>5, <3>2
  <2>. QED
    BY <2>1
<1>10. \A n \in DOMAIN s : t[n] = s[n]
  BY <1>2, <1>4
<1>11. IsFiniteSet(DOMAIN s) /\ IsFiniteSet(DOMAIN t)
  BY <1>2, <1>4, FS_Interval
<1>. QED
  <2> HIDE DEF b
  <2>. QED
    BY <1>7, <1>8, <1>9, <1>10, <1>11 DEF Joined

\* How many elements of a list are in M.
Count(s, M) == Cardinality({n \in DOMAIN s : s[n] \in M})

LEMMA CountJoined ==
  ASSUME NEW s, NEW t, NEW E, NEW f, Joined(s, t, E, f), NEW M
  PROVE  /\ Count(t, M) = Count(s, M) + Cardinality({x \in E : f[x] \in M})
         /\ Count(s, M) \in Nat /\ Cardinality({x \in E : f[x] \in M}) \in Nat
<1>1. PICK b \in Bijection(E, DOMAIN t \ DOMAIN s) :
        /\ IsFiniteSet(E) /\ IsFiniteSet(DOMAIN s) /\ IsFiniteSet(DOMAIN t) /\ DOMAIN s \subseteq DOMAIN t
        /\ \A x \in E : t[b[x]] = f[x]
        /\ \A n \in DOMAIN s : t[n] = s[n]
  BY DEF Joined
<1> DEFINE S == {n \in DOMAIN s : s[n] \in M}
           T == {n \in DOMAIN t : t[n] \in M}
           F == {x \in E : f[x] \in M}
           c == [x \in F |-> b[x]]
<1>2. IsFiniteSet(S) /\ IsFiniteSet(T) /\ IsFiniteSet(F) /\ IsFiniteSet(T \ S)
  BY <1>1, FS_Subset
<1>3. /\ b \in [E -> DOMAIN t \ DOMAIN s] /\ \A x, y \in E : b[x] = b[y] => x = y
      /\ \A n \in DOMAIN t \ DOMAIN s : \E x \in E : b[x] = n
  BY DEF Bijection, Injection, Surjection, IsInjective
<1>4. c \in Bijection(F, T \ S)
  <2>1. \A x \in F : b[x] \in T \ S
    BY <1>1, <1>3
  <2>2. \A n \in T \ S : \E x \in F : b[x] = n
    <3>1. ASSUME NEW n \in T \ S PROVE \E x \in F : b[x] = n
      <4>1. n \in DOMAIN t \ DOMAIN s /\ t[n] \in M
        BY <1>1
      <4>2. PICK x \in E : b[x] = n
        BY <1>3, <4>1
      <4>. QED
        BY <1>1, <4>1, <4>2
    <3>. QED
      BY <3>1
  <2>3. c \in [F -> T \ S] /\ \A x, y \in F : c[x] = c[y] => x = y
    BY <1>3, <2>1
  <2>4. \A n \in T \ S : \E x \in F : c[x] = n
    BY <2>2
  <2> HIDE DEF c, F, S, T
  <2>. QED
    BY <2>3, <2>4 DEF Bijection, Injection, Surjection, IsInjective
<1>5. S \subseteq T
  BY <1>1
<1>6. Count(s, M) = Cardinality(S) /\ Count(t, M) = Cardinality(T)
  BY DEF Count
<1> HIDE DEF S, T, c, F
<1>7. Cardinality(F) = Cardinality(T \ S)
  <2>1. ExistsBijection(F, T \ S)
    BY <1>4 DEF ExistsBijection
  <2>. QED
    BY <1>2, <2>1, FS_Bijection
<1>8. Cardinality(T \ S) = Cardinality(T) - Cardinality(S)
  <2>1. T \cap S = S
    BY <1>5
  <2>2. Cardinality(T \ S) = Cardinality(T) - Cardinality(T \cap S)
    BY <1>2, FS_Difference
  <2>. QED
    BY <2>1, <2>2
<1>9. Cardinality(S) \in Nat /\ Cardinality(T) \in Nat /\ Cardinality(F) \in Nat
  BY <1>2, FS_CardinalityType
<1>. QED
  BY <1>6, <1>7, <1>8, <1>9 DEF F

\* What the records of a list add up to.
Profits(s) == SumFunction([n \in DOMAIN s |-> s[n].pnl])

LEMMA SumJoined ==
  ASSUME NEW s, NEW t, NEW E, NEW f, Joined(s, t, E, f),
         \A n \in DOMAIN s : s[n].pnl \in Int, \A x \in E : f[x].pnl \in Int
  PROVE  /\ Profits(t) = Profits(s) + SumFunctionOnSet([x \in E |-> f[x].pnl], E)
         /\ Profits(s) \in Int /\ SumFunctionOnSet([x \in E |-> f[x].pnl], E) \in Int
<1>1. PICK b \in Bijection(E, DOMAIN t \ DOMAIN s) :
        /\ IsFiniteSet(E) /\ IsFiniteSet(DOMAIN s) /\ IsFiniteSet(DOMAIN t) /\ DOMAIN s \subseteq DOMAIN t
        /\ \A x \in E : t[b[x]] = f[x]
        /\ \A n \in DOMAIN s : t[n] = s[n]
  BY DEF Joined
<1> DEFINE ps == [n \in DOMAIN s |-> s[n].pnl]
           pt == [n \in DOMAIN t |-> t[n].pnl]
           pf == [x \in E |-> f[x].pnl]
           S == DOMAIN s
           N == DOMAIN t \ DOMAIN s
<1>2. S \cup N = DOMAIN t /\ S \cap N = {} /\ IsFiniteSet(N)
  BY <1>1, FS_Difference
<1>3. \A x \in E : b[x] \in N
  BY DEF Bijection, Injection
<1>4. \A n \in N : \E x \in E : b[x] = n
  BY DEF Bijection, Surjection
<1>5. \A x \in E : pf[x] \in Int /\ pf[x] = pt[b[x]]
  BY <1>1, <1>3
<1>6. \A n \in N : pt[n] \in Int
  <2>1. ASSUME NEW n \in N PROVE pt[n] \in Int
    <3>1. PICK x \in E : b[x] = n
      BY <1>4
    <3> HIDE DEF pt, pf, N
    <3>. QED
      BY <1>5, <3>1
  <2>. QED
    BY <2>1
<1>7. \A n \in S : ps[n] \in Int /\ pt[n] = ps[n]
  BY <1>1
<1>8. Profits(t) = SumFunctionOnSet(pt, S \cup N) /\ Profits(s) = SumFunctionOnSet(ps, S)
  BY <1>2 DEF Profits, SumFunction
<1>9. b \in Bijection(E, N) /\ IsFiniteSet(E) /\ IsFiniteSet(S)
  BY <1>1
<1> HIDE DEF ps, pt, pf, S, N
<1>10. SumFunctionOnSet(pt, S \cup N) = SumFunctionOnSet(pt, S) + SumFunctionOnSet(pt, N)
  <2>1. \A x \in S \cup N : pt[x] \in Int
    BY <1>6, <1>7
  <2>. QED
    BY <1>2, <1>9, <2>1, SumUnion
<1>11. SumFunctionOnSet(pt, S) = SumFunctionOnSet(ps, S)
  BY <1>7, <1>9, SumAgree
<1>12. SumFunctionOnSet(pf, E) = SumFunctionOnSet(pt, N)
  BY <1>5, <1>9, SumReindex
<1>13. SumFunctionOnSet(ps, S) \in Int /\ SumFunctionOnSet(pf, E) \in Int
  BY <1>5, <1>7, <1>9, SumInt
<1>. QED
  BY <1>8, <1>10, <1>11, <1>12, <1>13 DEF pf

-----------------------------------------------------------------------------
(* The ledger *)

\* What a record says was an entry.
RecordsAreKnown ==
  \A n \in DOMAIN records : Known(account, <<records[n].entry, records[n].instrument, "buy">>)

OfEntry(d, i) == {r \in Record : r.instrument = i /\ r.entry = d}
OfExit(i, k) == {r \in Record : r.instrument = i /\ r.reason = k}

\* The parts of EveryEntryIsRecorded.
EntriesAreCounted ==
  \A d \in Days, i \in Instruments : Known(account, <<d, i, "buy">>) =>
    Count(records, OfEntry(d, i)) = IF entries[i].day = d THEN 0 ELSE 1
ExitsAreCounted ==
  \A i \in Instruments, k \in ExitKinds :
    Count(records, OfExit(i, k)) = Cardinality({d \in Days : Known(account, <<d, i, k>>)})
ProfitsAddUp ==
  (\A d \in Days, i \in Instruments : ~Known(account, <<d, i, "pyramid">>)) =>
    realized = Profits(records)

Ledger == RecordsAreKnown /\ EntriesAreCounted /\ ExitsAreCounted /\ ProfitsAddUp

LEMMA RecordTypes ==
  ASSUME TypeOK
  PROVE  \A n \in DOMAIN records : records[n] \in Record
BY ElementOfSeq, LenProperties DEF TypeOK

LEMMA LedgerSays ==
  ASSUME TypeOK, Ledger
  PROVE  EveryEntryIsRecorded
<1>1. \A n \in DOMAIN records : records[n] \in Record
  BY RecordTypes
<1>2. ASSUME NEW d \in Days, NEW i \in Instruments
      PROVE  {n \in DOMAIN records : records[n].instrument = i /\ records[n].entry = d}
               = {n \in DOMAIN records : records[n] \in OfEntry(d, i)}
  BY <1>1 DEF OfEntry
<1>3. ASSUME NEW i \in Instruments, NEW k \in ExitKinds
      PROVE  {n \in DOMAIN records : records[n].instrument = i /\ records[n].reason = k}
               = {n \in DOMAIN records : records[n] \in OfExit(i, k)}
  BY <1>1 DEF OfExit
<1>4. ASSUME NEW d \in Days, NEW i \in Instruments, Known(account, <<d, i, "buy">>)
      PROVE  LET of == {n \in DOMAIN records : records[n].instrument = i /\ records[n].entry = d}
             IN Cardinality(of) = IF entries[i].day = d THEN 0 ELSE 1
  <2>1. Count(records, OfEntry(d, i)) = IF entries[i].day = d THEN 0 ELSE 1
    BY <1>4 DEF Ledger, EntriesAreCounted
  <2>. QED
    BY <1>2, <2>1 DEF Count
<1>5. ASSUME NEW i \in Instruments, NEW k \in ExitKinds
      PROVE  Cardinality({n \in DOMAIN records : records[n].instrument = i /\ records[n].reason = k})
               = Cardinality({d \in Days : Known(account, <<d, i, k>>)})
  <2>1. Count(records, OfExit(i, k)) = Cardinality({d \in Days : Known(account, <<d, i, k>>)})
    BY DEF Ledger, ExitsAreCounted
  <2>. QED
    BY <1>3, <2>1 DEF Count
<1>6. (\A d \in Days, i \in Instruments : ~Known(account, <<d, i, "pyramid">>)) =>
        realized = SumFunction([n \in DOMAIN records |-> records[n].pnl])
  BY DEF Ledger, ProfitsAddUp, Profits
<1>. QED
  BY <1>4, <1>5, <1>6 DEF EveryEntryIsRecorded

\* The records of a closing join the list.
LEMMA ClosedJoined ==
  ASSUME Inv, day # 0, NEW exits, NEW price, NEW kind, Closable(exits, price, kind),
         Closed(exits, price, kind), NEW R, R = RecordOf(exits, price, kind)
  PROVE  /\ Joined(records, records', exits, R)
         /\ \A i \in exits : /\ R[i] \in Record /\ R[i].instrument = i
                             /\ R[i].entry = entries[i].day /\ R[i].reason = kind[i]
                             /\ R[i].pnl = (price[i] - entries[i].price) * entries[i].qty
<1>1. /\ \A i \in exits : R[i] \in Record
      /\ \E order \in SetToSeqs(exits) : records' = records \o [n \in DOMAIN order |-> R[order[n]]]
  <2>1. /\ \A i \in exits : RecordOf(exits, price, kind)[i] \in Record
        /\ ListedAs(records, records', exits, RecordOf(exits, price, kind))
    BY ClosedBooks DEF Inv
  <2>. QED
    BY <2>1 DEF ListedAs
<1>2. PICK order \in SetToSeqs(exits) : records' = records \o [n \in DOMAIN order |-> R[order[n]]]
  BY <1>1
<1>3. records \in Seq(Record) /\ IsFiniteSet(exits)
  BY HeldTypes, FS_Subset DEF Inv, TypeOK, Closable
<1>4. Joined(records, records', exits, R)
  <2>1. PICK s, t : s = records /\ t = records'
    OBVIOUS
  <2>2. Joined(s, t, exits, R)
    BY <1>1, <1>2, <1>3, <2>1, ListJoined
  <2>. QED
    BY <2>1, <2>2
<1>5. \A i \in exits : /\ R[i].instrument = i
                       /\ R[i].entry = entries[i].day /\ R[i].reason = kind[i]
                       /\ R[i].pnl = (price[i] - entries[i].price) * entries[i].qty
  BY DEF RecordOf
<1>. QED
  BY <1>1, <1>4, <1>5

\* A closing records each exit once, whatever the order.
LEMMA ClosingRecords ==
  ASSUME Inv, Ledger, day # 0, NEW exits, NEW price, NEW kind, Closable(exits, price, kind),
         Closed(exits, price, kind)
  PROVE  Ledger'
<1>1. PICK R : R = RecordOf(exits, price, kind)
  OBVIOUS
<1>2. /\ Joined(records, records', exits, R)
      /\ \A i \in exits : /\ R[i] \in Record /\ R[i].instrument = i
                          /\ R[i].entry = entries[i].day /\ R[i].reason = kind[i]
                          /\ R[i].pnl = (price[i] - entries[i].price) * entries[i].qty
  BY <1>1, ClosedJoined
<1>3. /\ \A d \in Days, i \in Instruments, k \in Kinds :
           Known(account', <<d, i, k>>) <=>
             Known(account, <<d, i, k>>) \/ (d = day /\ i \in exits /\ k = kind[i])
      /\ \A d \in Days, i \in Instruments, k \in {"buy", "pyramid"} :
           Known(account', <<d, i, k>>) <=> Known(account, <<d, i, k>>)
  BY ClosedIds DEF Inv
<1>4. /\ exits \subseteq Instruments /\ day \in Days
      /\ \A i \in exits : /\ entries[i] \in Entry /\ entries[i].day \in Days /\ kind[i] \in ExitKinds
                          /\ ~Known(account, <<day, i, kind[i]>>) /\ entries[i] # NoEntry
                          /\ Known(account, <<entries[i].day, i, "buy">>)
  <2>1. exits \subseteq Instruments /\ day \in Days /\ entries \in [Instruments -> Entry \cup {NoEntry}]
    BY HeldTypes, IdTypes DEF Closable, Inv, TypeOK
  <2>2. \A i \in exits : /\ kind[i] \in ExitKinds /\ ~Known(account, <<day, i, kind[i]>>)
                         /\ entries[i] # NoEntry
    BY DEF Closable
  <2>3. \A i \in exits : entries[i] \in Entry /\ entries[i].day \in Days
    BY <2>1, <2>2 DEF Entry
  <2>4. \A i \in exits : Known(account, <<entries[i].day, i, "buy">>)
    BY <2>1, <2>2 DEF Inv, EntriesAreKnown
  <2>. QED
    BY <2>1, <2>2, <2>3, <2>4
<1>5. \A i \in Instruments : entries'[i] = IF i \in exits THEN NoEntry ELSE entries[i]
  BY DEF Closed, Released
<1>6. RecordsAreKnown'
  <2>1. ASSUME NEW n \in DOMAIN records'
        PROVE  Known(account', <<records'[n].entry, records'[n].instrument, "buy">>)
    <3>1. CASE n \in DOMAIN records
      <4>1. records'[n] = records[n] /\ records[n] \in Record
        BY <1>2, <3>1, RecordTypes DEF Joined, Inv
      <4>2. Known(account, <<records[n].entry, records[n].instrument, "buy">>)
        BY <3>1 DEF Ledger, RecordsAreKnown
      <4>. QED
        BY <1>3, <4>1, <4>2 DEF Record
    <3>2. CASE n \notin DOMAIN records
      <4>1. PICK b \in Bijection(exits, DOMAIN records' \ DOMAIN records) : \A x \in exits : records'[b[x]] = R[x]
        BY <1>2 DEF Joined
      <4>2. PICK i \in exits : b[i] = n
        BY <3>2 DEF Bijection, Surjection
      <4>3. records'[n].entry = entries[i].day /\ records'[n].instrument = i
        BY <1>2, <4>1, <4>2
      <4>. QED
        BY <1>3, <1>4, <4>3
    <3>. QED
      BY <3>1, <3>2
  <2>. QED
    BY <2>1 DEF RecordsAreKnown
<1>7. EntriesAreCounted'
  <2>1. ASSUME NEW d \in Days, NEW i \in Instruments, Known(account', <<d, i, "buy">>)
        PROVE  Count(records', OfEntry(d, i)) = IF entries'[i].day = d THEN 0 ELSE 1
    <3> DEFINE new == {x \in exits : R[x] \in OfEntry(d, i)}
    <3>1. Known(account, <<d, i, "buy">>)
      BY <1>3, <2>1
    <3>2. Count(records, OfEntry(d, i)) = IF entries[i].day = d THEN 0 ELSE 1
      BY <3>1 DEF Ledger, EntriesAreCounted
    <3>3. Count(records', OfEntry(d, i)) = Count(records, OfEntry(d, i)) + Cardinality(new)
      <4>1. PICK s, t, M : s = records /\ t = records' /\ M = OfEntry(d, i)
        OBVIOUS
      <4>2. Count(t, M) = Count(s, M) + Cardinality({x \in exits : R[x] \in M})
        BY <1>2, <4>1, CountJoined
      <4>. QED
        BY <4>1, <4>2
    <3>4. \A x \in exits : x \in new <=> x = i /\ entries[i].day = d
      BY <1>2, <1>4 DEF OfEntry
    <3>5. d # 0 /\ NoEntry.day = 0
      BY IdTypes DEF NoEntry
    <3>6. CASE i \in exits /\ entries[i].day = d
      <4>1. new = {i}
        BY <3>4, <3>6
      <4>. QED
        BY <1>5, <3>2, <3>3, <3>5, <3>6, <4>1, FS_Singleton
    <3>7. CASE ~(i \in exits /\ entries[i].day = d)
      <4>1. new = {}
        BY <3>4, <3>7
      <4>. QED
        BY <1>5, <3>2, <3>3, <3>5, <3>7, <4>1, FS_EmptySet
    <3>. QED
      BY <3>6, <3>7
  <2>. QED
    BY <2>1 DEF EntriesAreCounted
<1>8. ExitsAreCounted'
  <2>1. ASSUME NEW i \in Instruments, NEW k \in ExitKinds
        PROVE  Count(records', OfExit(i, k)) = Cardinality({d \in Days : Known(account', <<d, i, k>>)})
    <3> DEFINE new == {x \in exits : R[x] \in OfExit(i, k)}
               old == {d \in Days : Known(account, <<d, i, k>>)}
               now == {d \in Days : Known(account', <<d, i, k>>)}
    <3>1. k \in Kinds
      BY DEF Kinds, ExitKinds
    <3>2. Count(records, OfExit(i, k)) = Cardinality(old)
      BY DEF Ledger, ExitsAreCounted
    <3>3. Count(records', OfExit(i, k)) = Count(records, OfExit(i, k)) + Cardinality(new)
      <4>1. PICK s, t, M : s = records /\ t = records' /\ M = OfExit(i, k)
        OBVIOUS
      <4>2. Count(t, M) = Count(s, M) + Cardinality({x \in exits : R[x] \in M})
        BY <1>2, <4>1, CountJoined
      <4>. QED
        BY <4>1, <4>2
    <3>4. \A x \in exits : x \in new <=> x = i /\ kind[i] = k
      BY <1>2 DEF OfExit
    <3>5. IsFiniteSet(old) /\ Cardinality(old) \in Nat
      <4>1. IsFiniteSet(Days)
        BY FS_Interval, ConfigAssumption DEF Days
      <4>. QED
        BY <4>1, FS_Subset, FS_CardinalityType
    <3>6. CASE i \in exits /\ kind[i] = k
      <4>1. new = {i}
        BY <3>4, <3>6
      <4>2. now = old \cup {day} /\ day \notin old
        BY <1>3, <1>4, <3>1, <3>6
      <4> HIDE DEF old, now, new
      <4>3. Cardinality(now) = Cardinality(old) + 1
        BY <3>5, <4>2, FS_AddElement
      <4>. QED
        BY <3>2, <3>3, <3>5, <4>1, <4>3, FS_Singleton DEF now
    <3>7. CASE ~(i \in exits /\ kind[i] = k)
      <4>1. new = {} /\ now = old
        BY <1>3, <3>1, <3>4, <3>7
      <4>2. Cardinality(new) = 0
        BY <4>1, FS_EmptySet
      <4> HIDE DEF old, now, new
      <4>3. Count(records', OfExit(i, k)) = Cardinality(now)
        BY <3>2, <3>3, <3>5, <4>1, <4>2
      <4>. QED
        BY <4>3 DEF now
    <3>. QED
      BY <3>6, <3>7
  <2>. QED
    BY <2>1 DEF ExitsAreCounted
<1>9. ProfitsAddUp'
  <2> SUFFICES ASSUME \A d \in Days, i \in Instruments : ~Known(account', <<d, i, "pyramid">>)
               PROVE  realized' = Profits(records')
    BY DEF ProfitsAddUp
  <2> DEFINE gain == [i \in exits |-> Gain(i, price[i])]
             pnl == [x \in exits |-> R[x].pnl]
  <2>1. \A d \in Days, i \in Instruments : ~Known(account, <<d, i, "pyramid">>)
    BY <1>3
  <2>2. realized = Profits(records)
    BY <2>1 DEF Ledger, ProfitsAddUp
  <2>3. realized' = realized + SumFunctionOnSet(gain, exits)
    BY DEF Closed, SumFunction
  <2>4. Profits(records') = Profits(records) + SumFunctionOnSet(pnl, exits)
    <3>1. /\ \A n \in DOMAIN records : records[n].pnl \in Int
          /\ \A x \in exits : R[x].pnl \in Int
      BY <1>2, RecordTypes DEF Inv, Record
    <3>2. PICK s, t : s = records /\ t = records'
      OBVIOUS
    <3>3. Profits(t) = Profits(s) + SumFunctionOnSet([x \in exits |-> R[x].pnl], exits)
      BY <1>2, <3>1, <3>2, SumJoined
    <3>. QED
      BY <3>2, <3>3
  <2>5. \A i \in exits : gain[i] = pnl[i]
    <3>1. ASSUME NEW i \in exits PROVE gain[i] = pnl[i]
      <4>1. account.held[i] = entries[i].qty /\ paid[i] = entries[i].qty * entries[i].price
        BY <1>4, <2>1 DEF Inv, EntriesAreKnown
      <4>2. PICK p \in Int, q \in Int, e \in Int : p = price[i] /\ q = entries[i].qty /\ e = entries[i].price
        <5>1. price[i] \in Nat \ {0}
          BY DEF Closable
        <5>2. entries[i].qty \in Nat \ {0} /\ entries[i].price \in Nat \ {0}
          BY <1>4 DEF Entry
        <5>. QED
          BY <5>1, <5>2
      <4>3. p * q - q * e = (p - e) * q
        OBVIOUS
      <4>. QED
        BY <1>2, <4>1, <4>2, <4>3 DEF Gain
    <3>. QED
      BY <3>1
  <2> HIDE DEF gain, pnl
  <2>6. SumFunctionOnSet(gain, exits) = SumFunctionOnSet(pnl, exits)
    <3>1. IsFiniteSet(exits)
      BY <1>2 DEF Joined
    <3>. QED
      BY <2>5, <3>1, SumAgree
  <2>. QED
    BY <2>2, <2>3, <2>4, <2>6
<1>. QED
  BY <1>6, <1>7, <1>8, <1>9 DEF Ledger

LEMMA SameRecords ==
  ASSUME Ledger, UNCHANGED <<account, entries, records, realized>>
  PROVE  Ledger'
BY DEF Ledger, RecordsAreKnown, EntriesAreCounted, ExitsAreCounted, ProfitsAddUp

\* The entry of a purchase is active and has no record yet.
LEMMA EnteredRecords ==
  ASSUME Inv, Ledger, day # 0, Entered
  PROVE  Ledger'
<1>1. PICK i \in Instruments, price \in Nat \ {0}, qty \in Nat \ {0} :
        /\ PaidFor(i, "buy", price, qty)
        /\ i \notin Held
        /\ entries' = [entries EXCEPT ![i] = [day |-> day, price |-> price, qty |-> qty]]
  BY DEF Entered
<1>2. /\ ~Known(account, <<day, i, "buy">>) /\ UNCHANGED <<records, realized>>
      /\ BoughtOne(account, account', <<day, i, "buy">>, i, price, qty)
  BY <1>1 DEF PaidFor
<1>3. \A d \in Days, j \in Instruments, k \in Kinds :
        Known(account', <<d, j, k>>) <=> Known(account, <<d, j, k>>) \/ (d = day /\ j = i /\ k = "buy")
  BY <1>2, BoughtIds DEF Inv
<1>4. /\ \A j \in Instruments : entries'[j] = IF j = i THEN [day |-> day, price |-> price, qty |-> qty] ELSE entries[j]
      /\ entries[i] = NoEntry /\ day \in Days
  BY <1>1, IdTypes DEF Inv, TypeOK, PositionsAreKept
<1>5. {"buy", "pyramid"} \subseteq Kinds /\ ExitKinds \subseteq Kinds /\ "buy" \notin ExitKinds
  BY DEF Kinds, ExitKinds
<1>6. \A n \in DOMAIN records : records[n] \in Record
  BY RecordTypes DEF Inv
<1>7. RecordsAreKnown'
  <2>1. ASSUME NEW n \in DOMAIN records
        PROVE  Known(account', <<records[n].entry, records[n].instrument, "buy">>)
    <3>1. records[n].entry \in Days /\ records[n].instrument \in Instruments
      BY <1>6 DEF Record
    <3>. QED
      BY <1>3, <1>5, <3>1 DEF Ledger, RecordsAreKnown
  <2>. QED
    BY <1>2, <2>1 DEF RecordsAreKnown
<1>8. EntriesAreCounted'
  <2>1. ASSUME NEW d \in Days, NEW j \in Instruments, Known(account', <<d, j, "buy">>)
        PROVE  Count(records, OfEntry(d, j)) = IF entries'[j].day = d THEN 0 ELSE 1
    <3>1. CASE Known(account, <<d, j, "buy">>)
      <4>1. Count(records, OfEntry(d, j)) = IF entries[j].day = d THEN 0 ELSE 1
        BY <3>1 DEF Ledger, EntriesAreCounted
      <4>2. CASE j # i
        BY <1>4, <4>1, <4>2
      <4>3. CASE j = i
        <5>1. d # day /\ d # 0
          BY <1>2, <3>1, <4>3, IdTypes
        <5>2. entries'[j].day = day /\ entries[j].day = 0
          BY <1>4, <4>3 DEF NoEntry
        <5>. QED
          BY <4>1, <5>1, <5>2
      <4>. QED
        BY <4>2, <4>3
    <3>2. CASE ~Known(account, <<d, j, "buy">>)
      <4>1. d = day /\ j = i
        BY <1>3, <1>5, <2>1, <3>2
      <4>2. {n \in DOMAIN records : records[n] \in OfEntry(d, j)} = {}
        BY <1>2, <4>1 DEF Ledger, RecordsAreKnown, OfEntry
      <4>3. Count(records, OfEntry(d, j)) = 0
        BY <4>2, FS_EmptySet DEF Count
      <4>. QED
        BY <1>4, <4>1, <4>3
    <3>. QED
      BY <3>1, <3>2
  <2>. QED
    BY <1>2, <2>1 DEF EntriesAreCounted
<1>9. ExitsAreCounted'
  <2>1. ASSUME NEW j \in Instruments, NEW k \in ExitKinds
        PROVE  {d \in Days : Known(account', <<d, j, k>>)} = {d \in Days : Known(account, <<d, j, k>>)}
    BY <1>3, <1>5
  <2>2. ASSUME NEW j \in Instruments, NEW k \in ExitKinds
        PROVE  Count(records', OfExit(j, k)) = Cardinality({d \in Days : Known(account', <<d, j, k>>)})
    <3>1. Count(records, OfExit(j, k)) = Cardinality({d \in Days : Known(account, <<d, j, k>>)})
      BY DEF Ledger, ExitsAreCounted
    <3>. QED
      BY <1>2, <2>1, <3>1
  <2>. QED
    BY <2>2 DEF ExitsAreCounted
<1>10. ProfitsAddUp'
  <2>1. ASSUME \A d \in Days, j \in Instruments : ~Known(account', <<d, j, "pyramid">>)
        PROVE  realized' = Profits(records')
    <3>1. \A d \in Days, j \in Instruments : ~Known(account, <<d, j, "pyramid">>)
      BY <1>3, <1>5, <2>1
    <3>. QED
      BY <1>2, <3>1 DEF Ledger, ProfitsAddUp
  <2>. QED
    BY <2>1 DEF ProfitsAddUp
<1>. QED
  BY <1>7, <1>8, <1>9, <1>10 DEF Ledger

\* An addition has no entry of its own.
LEMMA EnlargedRecords ==
  ASSUME Inv, Ledger, day # 0, Enlarged
  PROVE  Ledger'
<1>1. PICK i \in Instruments, price \in Nat \ {0}, qty \in Nat \ {0} :
        PaidFor(i, "pyramid", price, qty) /\ UNCHANGED entries
  BY DEF Enlarged
<1>2. /\ UNCHANGED <<records, realized>>
      /\ BoughtOne(account, account', <<day, i, "pyramid">>, i, price, qty)
  BY <1>1 DEF PaidFor
<1>3. \A d \in Days, j \in Instruments, k \in Kinds :
        Known(account', <<d, j, k>>) <=> Known(account, <<d, j, k>>) \/ (d = day /\ j = i /\ k = "pyramid")
  BY <1>2, BoughtIds DEF Inv
<1>4. /\ "buy" \in Kinds /\ "pyramid" \in Kinds /\ "buy" # "pyramid"
      /\ ExitKinds \subseteq Kinds /\ "pyramid" \notin ExitKinds
  BY DEF Kinds, ExitKinds
<1>5. \A n \in DOMAIN records : records[n] \in Record
  BY RecordTypes DEF Inv
<1>6. \A d \in Days, j \in Instruments : Known(account', <<d, j, "buy">>) <=> Known(account, <<d, j, "buy">>)
  BY <1>3, <1>4
<1>7. RecordsAreKnown'
  BY <1>2, <1>5, <1>6 DEF Ledger, RecordsAreKnown, Record
<1>8. EntriesAreCounted'
  BY <1>1, <1>2, <1>6 DEF Ledger, EntriesAreCounted
<1>9. ExitsAreCounted'
  <2>1. ASSUME NEW j \in Instruments, NEW k \in ExitKinds
        PROVE  {d \in Days : Known(account', <<d, j, k>>)} = {d \in Days : Known(account, <<d, j, k>>)}
    BY <1>3, <1>4
  <2>2. ASSUME NEW j \in Instruments, NEW k \in ExitKinds
        PROVE  Count(records', OfExit(j, k)) = Cardinality({d \in Days : Known(account', <<d, j, k>>)})
    <3>1. Count(records, OfExit(j, k)) = Cardinality({d \in Days : Known(account, <<d, j, k>>)})
      BY DEF Ledger, ExitsAreCounted
    <3>. QED
      BY <1>2, <2>1, <3>1
  <2>. QED
    BY <2>2 DEF ExitsAreCounted
<1>10. ProfitsAddUp'
  <2>1. day \in Days
    BY IdTypes DEF Inv, TypeOK
  <2>2. Known(account', <<day, i, "pyramid">>)
    BY <1>3, <1>4, <2>1
  <2>. QED
    BY <2>1, <2>2 DEF ProfitsAddUp
<1>. QED
  BY <1>7, <1>8, <1>9, <1>10 DEF Ledger

-----------------------------------------------------------------------------
(* The cash *)

PlacedIds(acc) == {id \in Ids : Known(acc, id)}
Fee(acc) == [id \in PlacedIds(acc) |-> Commission(acc.orders[id].qty, acc.orders[id].price)]
Fees(acc) == SumFunctionOnSet(Fee(acc), PlacedIds(acc))
Costs(p) == SumFunctionOnSet(p, Instruments)

\* ProfitsExplainCash, in terms of these sums.
CashIsExplained == account.cash = 100 * (Capital + realized - Costs(paid)) - Fees(account)

LEMMA CashSays ==
  ASSUME TypeOK
  PROVE  ProfitsExplainCash <=> CashIsExplained
<1>1. {id \in Days \X Instruments \X Kinds : Known(account, id)} = PlacedIds(account)
  BY IdsAssumption DEF PlacedIds
<1>2. SumFunction(paid) = Costs(paid)
  BY DEF Costs, SumFunction, TypeOK
<1>3. SumFunction([id \in PlacedIds(account) |-> Commission(account.orders[id].qty, account.orders[id].price)])
        = Fees(account)
  BY DEF Fees, Fee, SumFunction
<1>. QED
  BY <1>1, <1>2, <1>3 DEF ProfitsExplainCash, CashIsExplained

LEMMA FeeTypes ==
  ASSUME NEW acc \in Account
  PROVE  /\ IsFiniteSet(PlacedIds(acc)) /\ Fees(acc) \in Int
         /\ \A id \in PlacedIds(acc) : Fee(acc)[id] \in Int
<1>1. IsFiniteSet(Ids)
  <2> DEFINE S == (Days \X Instruments) \X Kinds
             f == [p \in S |-> <<p[1][1], p[1][2], p[2]>>]
  <2>1. IsFiniteSet(Days) /\ IsFiniteSet(Instruments)
    BY FS_Interval, ConfigAssumption, HoldingsAssumption DEF Days
  <2>2. IsFiniteSet(Kinds)
    <3>1. IsFiniteSet({"buy", "pyramid", "sell", "stop", "target"} \cup {"final"})
      <4>1. IsFiniteSet({} \cup {"buy"})
        BY FS_EmptySet, FS_AddElement
      <4>2. IsFiniteSet(({} \cup {"buy"}) \cup {"pyramid"})
        BY <4>1, FS_AddElement
      <4>3. IsFiniteSet((({} \cup {"buy"}) \cup {"pyramid"}) \cup {"sell"})
        BY <4>2, FS_AddElement
      <4>4. IsFiniteSet(((({} \cup {"buy"}) \cup {"pyramid"}) \cup {"sell"}) \cup {"stop"})
        BY <4>3, FS_AddElement
      <4>5. IsFiniteSet((((({} \cup {"buy"}) \cup {"pyramid"}) \cup {"sell"}) \cup {"stop"}) \cup {"target"})
        BY <4>4, FS_AddElement
      <4>6. (((({} \cup {"buy"}) \cup {"pyramid"}) \cup {"sell"}) \cup {"stop"}) \cup {"target"}
              = {"buy", "pyramid", "sell", "stop", "target"}
        OBVIOUS
      <4>. QED
        BY <4>5, <4>6, FS_AddElement
    <3>2. {"buy", "pyramid", "sell", "stop", "target"} \cup {"final"} = Kinds
      BY DEF Kinds
    <3>. QED
      BY <3>1, <3>2
  <2>3. IsFiniteSet(S)
    BY <2>1, <2>2, FS_Product
  <2>4. f \in Surjection(S, Ids)
    <3>1. f \in [S -> Ids]
      BY IdsAssumption
    <3>2. ASSUME NEW id \in Ids PROVE \E p \in S : f[p] = id
      <4>1. PICK d \in Days, i \in Instruments, k \in Kinds : id = <<d, i, k>>
        BY IdsAssumption
      <4>2. <<<<d, i>>, k>> \in S /\ f[<<<<d, i>>, k>>] = id
        BY <4>1
      <4>. QED
        BY <4>2
    <3> HIDE DEF f, S
    <3>. QED
      BY <3>1, <3>2 DEF Surjection
  <2> HIDE DEF f, S
  <2>. QED
    BY <2>3, <2>4, FS_Surjection
<1>2. IsFiniteSet(PlacedIds(acc))
  BY <1>1, FS_Subset DEF PlacedIds
<1>3. ASSUME NEW id \in PlacedIds(acc) PROVE Fee(acc)[id] \in Int
  <2>1. acc.orders[id] \in Order
    BY AccountTypes DEF PlacedIds, Known
  <2>2. PICK q \in Nat, p \in Nat, c \in Nat :
          q = acc.orders[id].qty /\ p = acc.orders[id].price /\ c = CommissionPct
    BY <2>1, AccountAssumption DEF Order
  <2>3. c * q * p \in Int
    OBVIOUS
  <2>. QED
    BY <2>2, <2>3 DEF Fee, Commission
<1>4. Fees(acc) \in Int
  BY <1>2, <1>3, SumInt DEF Fees
<1>. QED
  BY <1>2, <1>3, <1>4

\* A purchase moves cash into the position's cost, but for the commission.
LEMMA PaidCash ==
  ASSUME TypeOK, day # 0, CashIsExplained, NEW i \in Instruments, NEW kind \in {"buy", "pyramid"},
         NEW price \in Nat \ {0}, NEW qty \in Nat \ {0}, PaidFor(i, kind, price, qty)
  PROVE  CashIsExplained'
<1> DEFINE id == <<day, i, kind>>
           P == PlacedIds(account)
<1>1. /\ ~Known(account, id) /\ BoughtOne(account, account', id, i, price, qty)
      /\ paid' = [paid EXCEPT ![i] = @ + qty * price] /\ realized' = realized
  BY DEF PaidFor
<1>2. id \in Ids
  BY IdTypes DEF TypeOK, Kinds
<1>3. account \in Account /\ account' \in Account /\ paid \in [Instruments -> Nat] /\ realized \in Int
  BY <1>1 DEF BoughtOne, TypeOK
<1> HIDE DEF id
<1>4. /\ account'.orders = [account.orders EXCEPT ![id] = Made("BUY", i, qty, price, "FILLED")]
      /\ account'.cash = account.cash - Cost(qty, price)
      /\ PlacedIds(account') = P \cup {id} /\ id \notin P
  BY <1>1, <1>2 DEF BoughtOne, OnlyPlaced, PlacedIds
<1>5. Fees(account') = Fees(account) + Commission(qty, price) /\ Fees(account) \in Int
  <2>1. \A x \in P : x # id /\ Fee(account')[x] = Fee(account)[x]
    <3>1. \A x \in Ids : x # id => account'.orders[x] = account.orders[x]
      BY <1>2, <1>3, <1>4, AccountTypes
    <3>2. P \subseteq Ids
      BY DEF PlacedIds
    <3>. QED
      BY <1>4, <3>1, <3>2 DEF Fee
  <2>2. Fee(account')[id] = Commission(qty, price)
    <3>1. account'.orders[id] = Made("BUY", i, qty, price, "FILLED")
      BY <1>2, <1>3, <1>4, AccountTypes
    <3>. QED
      BY <1>4, <3>1, MadeIsAnOrder DEF Fee
  <2>3. /\ IsFiniteSet(P) /\ Fees(account) \in Int /\ \A x \in P : Fee(account)[x] \in Int
        /\ Fee(account')[id] \in Int
    BY <1>3, <1>4, FeeTypes
  <2>4. PICK f, g : f = Fee(account) /\ g = Fee(account')
    OBVIOUS
  <2>5. SumFunctionOnSet(g, P \cup {id}) = SumFunctionOnSet(f, P) + g[id]
    <3>1. /\ \A x \in P : f[x] \in Int /\ g[x] = f[x]
          /\ g[id] \in Int /\ IsFiniteSet(P) /\ id \notin P
      BY <1>4, <2>1, <2>3, <2>4
    <3> HIDE DEF P
    <3>. QED
      BY <3>1, SumAdd
  <2>. QED
    BY <1>4, <2>2, <2>3, <2>4, <2>5 DEF Fees
<1>6. Costs(paid') = Costs(paid) + qty * price /\ Costs(paid) \in Int
  <2> DEFINE R == Instruments \ {i}
  <2>1. PICK c \in Nat : c = qty * price
    OBVIOUS
  <2>2. /\ \A j \in Instruments : paid[j] \in Int /\ paid'[j] \in Int
        /\ \A j \in R : paid'[j] = paid[j]
        /\ paid'[i] = paid[i] + c
    BY <1>1, <1>3, <2>1
  <2>3. IsFiniteSet(Instruments) /\ IsFiniteSet(R)
    BY HoldingsAssumption, FS_Subset
  <2>4. PICK p, q : p = paid /\ q = paid'
    OBVIOUS
  <2>5. /\ SumFunctionOnSet(p, Instruments) = p[i] + SumFunctionOnSet(p, R)
        /\ SumFunctionOnSet(q, Instruments) = q[i] + SumFunctionOnSet(q, R)
    BY <2>2, <2>3, <2>4, SumRemove
  <2>6. SumFunctionOnSet(p, R) = SumFunctionOnSet(q, R) /\ SumFunctionOnSet(p, R) \in Int
    BY <2>2, <2>3, <2>4, SumAgree, SumInt
  <2>7. SumFunctionOnSet(p, Instruments) \in Int
    BY <2>2, <2>3, <2>4, SumInt
  <2> HIDE DEF R
  <2>. QED
    BY <2>1, <2>2, <2>4, <2>5, <2>6, <2>7 DEF Costs
<1>7. Gross(qty, price) + Commission(qty, price) = Cost(qty, price) /\ Gross(qty, price) = 100 * (qty * price)
  <2>1. PICK c \in Nat : c = qty * price
    OBVIOUS
  <2>2. 100 * qty * price = 100 * c
    BY <2>1
  <2>. QED
    BY <2>1, <2>2, Amounts100 DEF Gross
<1>8. PICK c \in Int, f \in Int : c = qty * price /\ f = Commission(qty, price)
  <2>1. PICK k \in Nat : k = CommissionPct
    BY AccountAssumption
  <2>2. k * qty * price \in Int /\ qty * price \in Int
    OBVIOUS
  <2>. QED
    BY <2>1, <2>2 DEF Commission
<1>9. account.cash \in Int /\ Capital \in Int /\ account.cash = 100 * (Capital + realized - Costs(paid)) - Fees(account)
  BY <1>3, AccountTypes, AccountAssumption DEF CashIsExplained
<1>10. account'.cash = account.cash - (100 * c + f)
  BY <1>4, <1>7, <1>8
<1>11. PICK m \in Int, n \in Int : m = Costs(paid) /\ n = Fees(account)
  BY <1>5, <1>6
<1>12. account'.cash = 100 * (Capital + realized - (m + c)) - (n + f)
  BY <1>3, <1>9, <1>10, <1>11
<1>. QED
  BY <1>1, <1>5, <1>6, <1>8, <1>11, <1>12 DEF CashIsExplained

\* A closing turns the cost of its positions and what they gained into cash, but
\* for the commissions.
LEMMA ClosedCash ==
  ASSUME Inv, CashIsExplained, day # 0, NEW exits, NEW price, NEW kind, Closable(exits, price, kind),
         Closed(exits, price, kind)
  PROVE  CashIsExplained'
<1> DEFINE id == [i \in exits |-> <<day, i, kind[i]>>]
           gain == [i \in exits |-> Gain(i, price[i])]
           brought == [i \in exits |-> Proceeds(account.held[i], price[i])]
           fee == [i \in exits |-> Commission(account.held[i], price[i])]
           gross == [i \in exits |-> gain[i] + paid[i]]
           P == PlacedIds(account)
           N == ClosingIds(exits, kind)
           R == Instruments \ exits
<1>1. /\ exits \in SUBSET Instruments /\ IsFiniteSet(exits) /\ IsFiniteSet(R)
      /\ account \in Account /\ account' \in Account /\ day \in Days
      /\ paid \in [Instruments -> Nat] /\ paid' \in [Instruments -> Nat] /\ realized \in Int
  <2>1. exits \in SUBSET Instruments
    BY HeldTypes DEF Inv, Closable
  <2>2. IsFiniteSet(exits) /\ IsFiniteSet(R)
    BY <2>1, HoldingsAssumption, FS_Subset
  <2>. QED
    BY <2>1, <2>2, IdTypes, ClosedAccount, ClosedBooks DEF Inv, TypeOK
<1>2. /\ SoldAll(account, account', exits, id, price)
      /\ OnlyPlaced(account, account', N)
  BY ClosedAccount DEF Inv
<1>3. \A i \in exits : /\ id[i] \in Ids /\ ~Known(account, id[i]) /\ id[i] \in N
                       /\ price[i] \in Nat \ {0} /\ account.held[i] \in Nat \ {0}
  <2>1. ExitKinds \subseteq Kinds
    BY DEF ExitKinds, Kinds
  <2>. QED
    BY <1>1, <2>1, IdTypes, HeldTypes DEF Closable, ClosingIds, Inv
<1>4. id \in Bijection(exits, N)
  <2>1. \A n \in N : \E i \in exits : id[i] = n
    BY DEF ClosingIds
  <2>2. \A i, j \in exits : id[i] = id[j] => i = j
    OBVIOUS
  <2>3. id \in [exits -> N]
    BY <1>3
  <2> HIDE DEF id, N
  <2>. QED
    BY <2>1, <2>2, <2>3 DEF Bijection, Injection, Surjection, IsInjective
<1>5. PlacedIds(account') = P \cup N /\ P \cap N = {}
  <2>1. N \subseteq Ids /\ \A n \in N : ~Known(account, n)
    <3>1. \A n \in N : \E i \in exits : n = id[i]
      BY DEF ClosingIds
    <3>. QED
      BY <1>3, <3>1
  <2>. QED
    BY <1>2, <2>1 DEF OnlyPlaced, PlacedIds
<1>6. \A i \in exits : \* the amounts of one exit
        /\ fee[i] \in Int /\ brought[i] \in Int /\ gain[i] \in Int /\ paid[i] \in Int
        /\ brought[i] = 100 * gross[i] + (0 - 1) * fee[i]
  <2>1. ASSUME NEW i \in exits
        PROVE  /\ fee[i] \in Int /\ brought[i] \in Int /\ gain[i] \in Int /\ paid[i] \in Int
               /\ brought[i] = 100 * gross[i] + (0 - 1) * fee[i]
    <3>1. PICK q, p : q = account.held[i] /\ p = price[i] /\ q \in Nat \ {0} /\ p \in Nat \ {0}
      BY <1>3
    <3>2. PICK c, a, k : c = q * p /\ a = paid[i] /\ k = CommissionPct /\ c \in Nat /\ a \in Nat /\ k \in Nat
      BY <1>1, <3>1, AccountAssumption
    <3>3. PICK f : f = k * q * p /\ f \in Int
      <4>1. k * q * p \in Int
        BY <3>1, <3>2
      <4>. QED
        BY <4>1
    <3>4. fee[i] = f
      BY <3>1, <3>2, <3>3 DEF Commission
    <3>5. gain[i] = c - a
      <4>1. p * q = q * p
        BY <3>1
      <4>. QED
        BY <3>1, <3>2, <4>1 DEF Gain
    <3>6. brought[i] = 100 * c - f
      <4>1. Gross(q, p) - Commission(q, p) = Proceeds(q, p)
        BY <3>1, Amounts100
      <4>2. 100 * q * p = 100 * c
        BY <3>1, <3>2
      <4>. QED
        BY <3>1, <3>2, <3>3, <4>1, <4>2 DEF Gross, Commission
    <3>7. gross[i] = c
      BY <3>2, <3>5
    <3>. QED
      BY <3>2, <3>3, <3>4, <3>5, <3>6, <3>7
  <2>. QED
    BY <2>1
<1>7. account'.cash = account.cash + SumFunctionOnSet(brought, exits)
  BY <1>2 DEF SoldAll
<1>8. realized' = realized + SumFunctionOnSet(gain, exits)
  BY DEF Closed, SumFunction
<1>9. \A i \in Instruments : paid'[i] = IF i \in exits THEN 0 ELSE paid[i]
  BY DEF Closed
<1>10. /\ \A x \in P : Fee(account')[x] = Fee(account)[x]
       /\ \A i \in exits : Fee(account')[id[i]] = fee[i]
  <2>1. \A x \in P : x \in Ids /\ \A i \in exits : id[i] # x
    BY <1>3, <1>5 DEF PlacedIds
  <2>2. \A x \in P : account'.orders[x] = account.orders[x]
    BY <1>2, <2>1 DEF SoldAll
  <2>3. \A i \in exits : account'.orders[id[i]] = Made("SELL", i, account.held[i], price[i], "FILLED")
    BY <1>2 DEF SoldAll
  <2>4. \A i \in exits : id[i] \in PlacedIds(account')
    BY <1>3, <1>5
  <2>5. ASSUME NEW i \in exits PROVE Fee(account')[id[i]] = fee[i]
    <3>1. PICK o : o = account'.orders[id[i]] /\ o.qty = account.held[i] /\ o.price = price[i]
      <4>1. PICK o : o = Made("SELL", i, account.held[i], price[i], "FILLED")
        OBVIOUS
      <4>2. o.qty = account.held[i] /\ o.price = price[i]
        BY <4>1 DEF Made
      <4>. QED
        BY <2>3, <4>1, <4>2
    <3>2. Fee(account')[id[i]] = Commission(o.qty, o.price)
      BY <2>4, <3>1 DEF Fee
    <3>. QED
      BY <3>1, <3>2
  <2>6. \A x \in P : Fee(account')[x] = Fee(account)[x]
    BY <1>5, <2>2 DEF Fee
  <2>. QED
    BY <2>5, <2>6
<1> HIDE DEF id, gain, brought, fee, P, N, R
<1>11. \A i \in exits : gross[i] = gain[i] + paid[i] /\ gross[i] \in Int
  BY <1>6
<1> HIDE DEF gross
<1>12. PICK g \in Int, f \in Int, a \in Int : /\ g = SumFunctionOnSet(gain, exits)
                                              /\ f = SumFunctionOnSet(fee, exits)
                                              /\ a = SumFunctionOnSet(paid, exits)
  BY <1>1, <1>6, SumInt
<1>13. SumFunctionOnSet(brought, exits) = 100 * (g + a) - f
  <2> DEFINE lot == [i \in exits |-> 100 * gross[i]]
             less == [i \in exits |-> (0 - 1) * fee[i]]
  <2>1. SumFunctionOnSet(gross, exits) = SumFunctionOnSet(gain, exits) + SumFunctionOnSet(paid, exits)
    BY <1>1, <1>6, <1>11, SumPlus
  <2>2. \A i \in exits : gross[i] \in Int /\ lot[i] = 100 * gross[i] /\ fee[i] \in Int /\ less[i] = (0 - 1) * fee[i]
    BY <1>6, <1>11
  <2>3. \A i \in exits : lot[i] \in Int /\ less[i] \in Int /\ brought[i] = lot[i] + less[i]
    BY <1>6, <1>11
  <2> HIDE DEF lot, less
  <2>4. SumFunctionOnSet(lot, exits) = 100 * SumFunctionOnSet(gross, exits)
    BY <1>1, <2>2, SumTimes
  <2>5. SumFunctionOnSet(less, exits) = (0 - 1) * SumFunctionOnSet(fee, exits)
    BY <1>1, <2>2, SumTimes
  <2>6. SumFunctionOnSet(brought, exits) = SumFunctionOnSet(lot, exits) + SumFunctionOnSet(less, exits)
    BY <1>1, <2>3, SumPlus
  <2>. QED
    BY <1>12, <2>1, <2>4, <2>5, <2>6
<1>14. Costs(paid') = Costs(paid) - a /\ Costs(paid) \in Int
  <2>1. PICK p, q : p = paid /\ q = paid'
    OBVIOUS
  <2>2. /\ \A j \in Instruments : p[j] \in Int /\ q[j] \in Int
        /\ \A j \in R : q[j] = p[j]
        /\ \A j \in exits : q[j] = 0 * p[j]
        /\ exits \cup R = Instruments /\ exits \cap R = {}
    BY <1>1, <1>9, <2>1 DEF R
  <2>3. /\ SumFunctionOnSet(p, exits \cup R) = SumFunctionOnSet(p, exits) + SumFunctionOnSet(p, R)
        /\ SumFunctionOnSet(q, exits \cup R) = SumFunctionOnSet(q, exits) + SumFunctionOnSet(q, R)
    BY <1>1, <2>2, SumUnion
  <2>4. SumFunctionOnSet(q, R) = SumFunctionOnSet(p, R) /\ SumFunctionOnSet(p, R) \in Int
    BY <1>1, <2>2, SumAgree, SumInt
  <2>5. SumFunctionOnSet(q, exits) = 0 * SumFunctionOnSet(p, exits)
    BY <1>1, <2>2, SumTimes
  <2>6. Costs(paid) \in Int
    BY <2>1, <2>2, HoldingsAssumption, SumInt DEF Costs
  <2>7. SumFunctionOnSet(q, exits) = 0
    BY <1>12, <2>1, <2>5
  <2>8. PICK rest \in Int : rest = SumFunctionOnSet(p, R)
    BY <2>4
  <2>9. Costs(paid) = a + rest /\ Costs(paid') = 0 + rest
    BY <1>12, <2>1, <2>2, <2>3, <2>4, <2>7, <2>8 DEF Costs
  <2>. QED
    BY <1>12, <2>6, <2>8, <2>9
<1>15. Fees(account') = Fees(account) + f /\ Fees(account) \in Int
  <2>1. PICK old, new : old = Fee(account) /\ new = Fee(account')
    OBVIOUS
  <2>2. /\ IsFiniteSet(P) /\ Fees(account) \in Int /\ \A x \in P : old[x] \in Int
        /\ IsFiniteSet(P \cup N) /\ \A x \in P \cup N : new[x] \in Int
    BY <1>1, <1>5, <2>1, FeeTypes DEF P
  <2>3. IsFiniteSet(N)
    BY <2>2, FS_Subset
  <2>4. SumFunctionOnSet(new, P \cup N) = SumFunctionOnSet(new, P) + SumFunctionOnSet(new, N)
    BY <1>5, <2>2, <2>3, SumUnion
  <2>5. SumFunctionOnSet(new, P) = SumFunctionOnSet(old, P)
    BY <1>10, <2>1, <2>2, SumAgree
  <2>6. SumFunctionOnSet(fee, exits) = SumFunctionOnSet(new, N)
    BY <1>1, <1>4, <1>6, <1>10, <2>1, SumReindex
  <2>7. Fees(account') = SumFunctionOnSet(new, P \cup N) /\ Fees(account) = SumFunctionOnSet(old, P)
    BY <1>5, <2>1 DEF Fees, P
  <2>. QED
    BY <1>12, <2>2, <2>4, <2>5, <2>6, <2>7
<1>16. PICK m \in Int, n \in Int : m = Costs(paid) /\ n = Fees(account)
  BY <1>14, <1>15
<1>17. account.cash \in Int /\ Capital \in Int /\ account.cash = 100 * (Capital + realized - m) - n
  BY <1>1, <1>16, AccountTypes, AccountAssumption DEF CashIsExplained
<1>18. account'.cash = 100 * (Capital + (realized + g) - (m - a)) - (n + f)
  BY <1>1, <1>7, <1>12, <1>13, <1>16, <1>17
<1>. QED
  BY <1>8, <1>12, <1>14, <1>15, <1>16, <1>18 DEF CashIsExplained

-----------------------------------------------------------------------------
(* The ledger and the cash, kept by every step *)

Books == Inv /\ Ledger /\ CashIsExplained

LEMMA ClosingBooks ==
  ASSUME Books, SomeClosed
  PROVE  Ledger' /\ CashIsExplained'
<1>1. Inv /\ Ledger /\ CashIsExplained /\ day # 0
  BY DEF Books, SomeClosed
<1>2. PICK exits, price, kind : Closable(exits, price, kind) /\ Closed(exits, price, kind)
  BY DEF SomeClosed
<1>. QED
  BY <1>1, <1>2, ClosingRecords, ClosedCash

LEMMA SameBooks ==
  ASSUME Books, UNCHANGED <<account, paid, entries, records, realized>>
  PROVE  Ledger' /\ CashIsExplained'
<1>1. Ledger'
  BY SameRecords DEF Books
<1>2. CashIsExplained'
  BY DEF Books, CashIsExplained, Fees, Fee, PlacedIds, Known, Costs
<1>. QED
  BY <1>1, <1>2

LEMMA BuyingBooks ==
  ASSUME Books, day # 0, Entered \/ Enlarged
  PROVE  Ledger' /\ CashIsExplained'
<1>1. Ledger'
  BY EnteredRecords, EnlargedRecords DEF Books
<1>2. CashIsExplained'
  <2>1. TypeOK /\ CashIsExplained
    BY DEF Books, Inv
  <2>2. PICK i \in Instruments, kind \in {"buy", "pyramid"}, price \in Nat \ {0}, qty \in Nat \ {0} :
          PaidFor(i, kind, price, qty)
    BY DEF Entered, Enlarged
  <2>. QED
    BY <2>1, <2>2, PaidCash
<1>. QED
  BY <1>1, <1>2

LEMMA NoBooks ==
  ASSUME Init
  PROVE  Ledger /\ CashIsExplained
<1>1. /\ account = NewAccount /\ paid = [i \in Instruments |-> 0] /\ records = <<>> /\ realized = 0
  BY DEF Init
<1>2. \A id \in Ids : ~Known(account, id)
  BY <1>1 DEF NewAccount, Known
<1>3. \A d \in Days, i \in Instruments, k \in Kinds : ~Known(account, <<d, i, k>>)
  BY <1>2, IdTypes
<1>4. DOMAIN records = {}
  BY <1>1
<1>5. RecordsAreKnown
  BY <1>4 DEF RecordsAreKnown
<1>6. EntriesAreCounted
  BY <1>3 DEF EntriesAreCounted, Kinds
<1>7. ExitsAreCounted
  <2>1. ASSUME NEW i \in Instruments, NEW k \in ExitKinds
        PROVE  Count(records, OfExit(i, k)) = Cardinality({d \in Days : Known(account, <<d, i, k>>)})
    <3>1. {d \in Days : Known(account, <<d, i, k>>)} = {}
      BY <1>3 DEF ExitKinds, Kinds
    <3>2. {n \in DOMAIN records : records[n] \in OfExit(i, k)} = {}
      BY <1>4
    <3>. QED
      BY <3>1, <3>2 DEF Count
  <2>. QED
    BY <2>1 DEF ExitsAreCounted
<1>8. ProfitsAddUp
  <2>1. Profits(records) = SumFunctionOnSet([n \in DOMAIN records |-> records[n].pnl], {})
    BY <1>4 DEF Profits, SumFunction
  <2>. QED
    BY <1>1, <2>1, SumEmpty DEF ProfitsAddUp
<1>9. CashIsExplained
  <2>1. Fees(account) = 0
    <3>1. PlacedIds(account) = {}
      BY <1>2 DEF PlacedIds
    <3>. QED
      BY <3>1, SumEmpty DEF Fees
  <2>2. Costs(paid) = 0
    <3>1. PICK p : p = paid
      OBVIOUS
    <3>2. \A i \in Instruments : p[i] = 0 * p[i] /\ p[i] \in Int
      BY <1>1, <3>1
    <3>3. SumFunctionOnSet(p, Instruments) = 0 * SumFunctionOnSet(p, Instruments)
      BY <3>2, HoldingsAssumption, SumTimes
    <3>4. SumFunctionOnSet(p, Instruments) \in Int
      BY <3>2, HoldingsAssumption, SumInt
    <3>. QED
      BY <3>1, <3>3, <3>4 DEF Costs
  <2>. QED
    BY <1>1, <2>1, <2>2, AccountAssumption DEF CashIsExplained, NewAccount
<1>. QED
  BY <1>5, <1>6, <1>7, <1>8, <1>9 DEF Ledger

LEMMA NextBooks == Books /\ [Next]_vars => Books'
<1> SUFFICES ASSUME Books, [Next]_vars PROVE Ledger' /\ CashIsExplained'
  BY NextKeeps DEF Books
<1>1. ASSUME NEW d \in Days, NEW arrived \in [Instruments -> Bars \cup {NoBar}], Open(d, arrived)
      PROVE  Ledger' /\ CashIsExplained'
  BY <1>1, SameBooks DEF Open
<1>2. CASE ExecuteSell
  BY <1>2, SellKeeps, ClosingBooks DEF Books
<1>3. CASE ExecuteBuy
  <2>1. NothingBought \/ Entered
    BY <1>3, BuyKeeps DEF Books
  <2>2. day # 0
    BY <1>3, Popped DEF Books, ExecuteBuy
  <2>. QED
    BY <2>1, <2>2, SameBooks, BuyingBooks DEF NothingBought
<1>4. CASE ExecutePyramid
  <2>1. NothingBought \/ Enlarged
    BY <1>4, PyramidKeeps DEF Books
  <2>2. day # 0
    BY <1>4, Popped DEF Books, ExecutePyramid
  <2>. QED
    BY <2>1, <2>2, SameBooks, BuyingBooks DEF NothingBought
<1>5. CASE Exits
  BY <1>5, ExitsKeep, ClosingBooks DEF Books
<1>6. CASE Scan
  BY <1>6, SameBooks DEF Scan
<1>7. CASE Finish
  BY <1>7, FinishKeeps, ClosingBooks DEF Books
<1>8. CASE UNCHANGED vars
  BY <1>8, SameBooks DEF vars
<1>. QED
  BY <1>1, <1>2, <1>3, <1>4, <1>5, <1>6, <1>7, <1>8 DEF Next

LEMMA BooksAreKept == Spec => []Books
<1>1. Init => Books
  BY InitKeeps, NoBooks DEF Books
<1>. QED
  BY <1>1, NextBooks, PTL DEF Spec

\* The ledger of _trade_records is complete: each filled entry is active or in
\* exactly one record, each exit has its record, and without pyramids the records
\* add up to the reported profits.
THEOREM LedgerIsComplete == Spec => []EveryEntryIsRecorded
<1>1. Books => EveryEntryIsRecorded
  BY LedgerSays DEF Books, Inv
<1>. QED
  BY <1>1, BooksAreKept, PTL

\* The profits that run reports explain the broker's cash, pyramids included: the
\* difference is what the open positions cost and the commissions, which
\* trade_pnls leaves out.
THEOREM CashFollowsProfits == Spec => []ProfitsExplainCash
<1>1. Books => ProfitsExplainCash
  BY CashSays DEF Books, Inv
<1>. QED
  BY <1>1, BooksAreKept, PTL
=============================================================================
