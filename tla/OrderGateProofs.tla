--------------------------- MODULE OrderGateProofs ---------------------------
(***************************************************************************)
(* Theorems of OrderGate.  The invariant has two parts.  AccountInv: the    *)
(* books balance and the placed orders are finitely many, without which a   *)
(* sum over them means nothing.  RiskInv: what the engine's few fields say  *)
(* of all the marks it was given - the peak is the highest mark since the   *)
(* one in force at the reset, and each baseline is the equity of the first  *)
(* mark of its day or month - since the kill switch and the limits are      *)
(* stated over that history and the engine decides on its fields.           *)
(***************************************************************************)
EXTENDS OrderGate, PaperTradingProofs

Placed == {id \in Ids : Known(account, id)}


-----------------------------------------------------------------------------
(* The books *)

\* The part of the invariant about the account: its orders are few, so that
\* they can be summed.
AccountInv ==
  /\ account \in Account
  /\ IsFiniteSet(Placed)
  /\ BooksBalance
  /\ SizedBuysFill

\* An order that is placed under a new id.
Places(id, order) ==
  /\ ~Known(account, id)
  /\ account'.orders = [account.orders EXCEPT ![id] = order]

LEMMA PlacedTyped ==
  ASSUME account \in Account
  PROVE  \A x \in Placed : account.orders[x] \in Order
BY DEF Account, Placed, Known

LEMMA FilledStep ==
  ASSUME account \in Account, IsFiniteSet(Placed), NEW id \in Ids, NEW order \in Order,
         Places(id, order), NEW side \in {"BUY", "SELL"}
  PROVE  /\ IsFiniteSet(Placed)'
         /\ Filled(side) \subseteq Placed /\ IsFiniteSet(Filled(side)) /\ id \notin Filled(side)
         /\ \A x \in Placed : account'.orders[x] = account.orders[x]
         /\ account'.orders[id] = order
         /\ Filled(side)' = IF order.side = side /\ order.status = "FILLED"
                            THEN Filled(side) \cup {id} ELSE Filled(side)
<1>1. account.orders \in [Ids -> Order \cup {NoOrder}]
  BY DEF Account
<1>2. \A x \in Order : x # NoOrder
  BY DEF Order, NoOrder
<1>3. /\ account'.orders[id] = order
      /\ \A x \in Ids \ {id} : account'.orders[x] = account.orders[x]
  BY <1>1 DEF Places
<1>4. id \notin Placed
  BY DEF Placed, Places
<1>5. Filled(side) \subseteq Placed
  BY DEF Filled, Placed
<1>6. Placed' = Placed \cup {id}
  BY <1>2, <1>3, <1>4 DEF Placed, Known
<1>7. IsFiniteSet(Placed)' /\ IsFiniteSet(Filled(side))
  BY <1>5, <1>6, FS_AddElement, FS_Subset
<1>8. \A x \in Placed : account'.orders[x] = account.orders[x]
  BY <1>3, <1>4 DEF Placed
<1>9. Filled(side)' = IF order.side = side /\ order.status = "FILLED"
                      THEN Filled(side) \cup {id} ELSE Filled(side)
  <2>1. id \in Filled(side)' <=> order.side = side /\ order.status = "FILLED"
    BY <1>2, <1>3 DEF Filled, Known
  <2>2. \A x \in Ids \ {id} : x \in Filled(side)' <=> x \in Filled(side)
    BY <1>3 DEF Filled, Known
  <2>3. Filled(side) \subseteq Ids /\ Filled(side)' \subseteq Ids /\ id \notin Filled(side)
    BY <1>4, <1>5 DEF Filled
  <2>. QED
    BY <2>1, <2>2, <2>3
<1>. QED
  BY <1>3, <1>4, <1>5, <1>7, <1>8, <1>9

\* The sum of a side's amounts grows by the order's, if it is filled on it.
LEMMA AmountsStep ==
  ASSUME account \in Account, IsFiniteSet(Placed), NEW id \in Ids, NEW order \in Order,
         Places(id, order), NEW side \in {"BUY", "SELL"}, NEW pct \in Nat
  PROVE  /\ SumFunction(Amounts(side, pct)) \in Int
         /\ SumFunction(Amounts(side, pct))' =
              SumFunction(Amounts(side, pct)) +
                (IF order.side = side /\ order.status = "FILLED"
                 THEN pct * order.qty * order.price ELSE 0)
<1> DEFINE f == Amounts(side, pct)
           g == Amounts(side, pct)'
           S == Filled(side)
<1>1. /\ S \subseteq Placed /\ IsFiniteSet(S) /\ id \notin S
      /\ \A x \in Placed : account'.orders[x] = account.orders[x]
      /\ account'.orders[id] = order
      /\ Filled(side)' = IF order.side = side /\ order.status = "FILLED" THEN S \cup {id} ELSE S
  BY FilledStep
<1>2. \A x \in S : account.orders[x] \in Order
  BY <1>1, PlacedTyped
<1>3. \A o \in Order : pct * o.qty * o.price \in Int
  <2>1. \A a, b, c \in Nat : a * b * c \in Int
    OBVIOUS
  <2>2. \A o \in Order : o.qty \in Nat /\ o.price \in Nat
    BY DEF Order
  <2>. QED
    BY <2>1, <2>2
<1>4. /\ DOMAIN f = S /\ DOMAIN g = Filled(side)'
      /\ \A x \in S : f[x] = pct * account.orders[x].qty * account.orders[x].price
      /\ \A x \in Filled(side)' : g[x] = pct * account'.orders[x].qty * account'.orders[x].price
  BY DEF Amounts
<1>5. /\ SumFunction(f) = SumFunctionOnSet(f, DOMAIN f)
      /\ SumFunction(g) = SumFunctionOnSet(g, DOMAIN g)
  BY DEF SumFunction
<1>6. SumFunction(Amounts(side, pct))' = SumFunction(g)
  OBVIOUS
<1> HIDE DEF f, g, S
<1>7. \A x \in S : f[x] \in Int
  BY <1>2, <1>3, <1>4
<1>8. SumFunction(f) \in Int
  BY <1>1, <1>4, <1>5, <1>7, SumInt
<1>9. CASE order.side = side /\ order.status = "FILLED"
  <2>1. Filled(side)' = S \cup {id}
    BY <1>1, <1>9
  <2>2. \A x \in S : g[x] = f[x]
    BY <1>1, <1>4, <2>1
  <2>3. g[id] = pct * order.qty * order.price /\ g[id] \in Int
    BY <1>1, <1>3, <1>4, <2>1
  <2>4. SumFunctionOnSet(g, S \cup {id}) = SumFunctionOnSet(f, S) + g[id]
    BY <1>1, <1>7, <2>2, <2>3, SumAdd
  <2>5. SumFunction(g) = SumFunction(f) + pct * order.qty * order.price
    BY <1>4, <1>5, <2>1, <2>3, <2>4
  <2>. QED
    BY <1>6, <1>8, <1>9, <2>5 DEF f
<1>10. CASE ~(order.side = side /\ order.status = "FILLED")
  <2>1. Filled(side)' = S
    BY <1>1, <1>10
  <2>2. \A x \in S : g[x] = f[x]
    BY <1>1, <1>4, <2>1
  <2>3. SumFunctionOnSet(g, S) = SumFunctionOnSet(f, S)
    BY <1>1, <2>2, SumAgree
  <2>4. SumFunction(g) = SumFunction(f)
    BY <1>4, <1>5, <2>1, <2>3
  <2>. QED
    BY <1>6, <1>8, <1>10, <2>4 DEF f
<1>. QED
  BY <1>9, <1>10

\* And the shares it moved of an instrument.
LEMMA MovedStep ==
  ASSUME account \in Account, IsFiniteSet(Placed), NEW id \in Ids, NEW order \in Order,
         Places(id, order), NEW side \in {"BUY", "SELL"}, NEW i \in Instruments
  PROVE  /\ SumFunction(Moved(side, i)) \in Int
         /\ SumFunction(Moved(side, i))' =
              SumFunction(Moved(side, i)) +
                (IF order.side = side /\ order.status = "FILLED" /\ order.instrument = i
                 THEN order.qty ELSE 0)
<1> DEFINE f == Moved(side, i)
           g == Moved(side, i)'
           S == {x \in Filled(side) : account.orders[x].instrument = i}
           T == {x \in Filled(side)' : account'.orders[x].instrument = i}
<1>1. /\ Filled(side) \subseteq Placed /\ IsFiniteSet(Filled(side)) /\ id \notin Filled(side)
      /\ \A x \in Placed : account'.orders[x] = account.orders[x]
      /\ account'.orders[id] = order
      /\ Filled(side)' = IF order.side = side /\ order.status = "FILLED"
                         THEN Filled(side) \cup {id} ELSE Filled(side)
  BY FilledStep
<1>2. \A x \in S : account.orders[x].qty \in Int
  <2>1. \A x \in S : account.orders[x] \in Order
    BY <1>1, PlacedTyped
  <2>. QED
    BY <2>1 DEF Order
<1>3. IsFiniteSet(S) /\ id \notin S
  BY <1>1, FS_Subset
<1>4. /\ DOMAIN f = S /\ DOMAIN g = T
      /\ \A x \in S : f[x] = account.orders[x].qty
      /\ \A x \in T : g[x] = account'.orders[x].qty
  BY DEF Moved
<1>5. /\ SumFunction(f) = SumFunctionOnSet(f, DOMAIN f)
      /\ SumFunction(g) = SumFunctionOnSet(g, DOMAIN g)
  BY DEF SumFunction
<1>6. SumFunction(Moved(side, i))' = SumFunction(g)
  OBVIOUS
<1>7. \A x \in S : account'.orders[x] = account.orders[x]
  BY <1>1
<1>8. T = IF order.side = side /\ order.status = "FILLED" /\ order.instrument = i
          THEN S \cup {id} ELSE S
  <2>1. CASE order.side = side /\ order.status = "FILLED"
    <3>1. Filled(side)' = Filled(side) \cup {id}
      BY <1>1, <2>1
    <3>. QED
      BY <1>1, <2>1, <3>1
  <2>2. CASE ~(order.side = side /\ order.status = "FILLED")
    <3>1. Filled(side)' = Filled(side)
      BY <1>1, <2>2
    <3>. QED
      BY <1>1, <2>2, <3>1
  <2>. QED
    BY <2>1, <2>2
<1> HIDE DEF f, g, S, T
<1>9. \A x \in S : f[x] \in Int
  BY <1>2, <1>4
<1>10. SumFunction(f) \in Int
  BY <1>3, <1>4, <1>5, <1>9, SumInt
<1>11. CASE order.side = side /\ order.status = "FILLED" /\ order.instrument = i
  <2>1. T = S \cup {id}
    BY <1>8, <1>11
  <2>2. \A x \in S : g[x] = f[x]
    BY <1>4, <1>7, <2>1
  <2>3. g[id] = order.qty /\ g[id] \in Int
    BY <1>1, <1>4, <2>1 DEF Order
  <2>4. SumFunctionOnSet(g, S \cup {id}) = SumFunctionOnSet(f, S) + g[id]
    BY <1>3, <1>9, <2>2, <2>3, SumAdd
  <2>5. SumFunction(g) = SumFunction(f) + order.qty
    BY <1>4, <1>5, <2>1, <2>3, <2>4
  <2>. QED
    BY <1>6, <1>10, <1>11, <2>5 DEF f
<1>12. CASE ~(order.side = side /\ order.status = "FILLED" /\ order.instrument = i)
  <2>1. T = S
    BY <1>8, <1>12
  <2>2. \A x \in S : g[x] = f[x]
    BY <1>4, <1>7, <2>1
  <2>3. SumFunctionOnSet(g, S) = SumFunctionOnSet(f, S)
    BY <1>3, <2>2, SumAgree
  <2>4. SumFunction(g) = SumFunction(f)
    BY <1>4, <1>5, <2>1, <2>3
  <2>. QED
    BY <1>6, <1>10, <1>12, <2>4 DEF f
<1>. QED
  BY <1>11, <1>12

LEMMA BalancePlaced ==
  ASSUME AccountInv, account' \in Account,
         NEW id \in Ids, NEW order \in Order, Places(id, order),
         order.status = "FILLED" =>
           /\ order.side = "BUY" =>
                /\ account'.cash = account.cash - Cost(order.qty, order.price)
                /\ account'.held = [account.held EXCEPT ![order.instrument] = @ + order.qty]
           /\ order.side = "SELL" =>
                /\ account'.cash = account.cash + Proceeds(order.qty, order.price)
                /\ account'.held = [account.held EXCEPT ![order.instrument] = @ - order.qty],
         order.status # "FILLED" => account'.cash = account.cash /\ account'.held = account.held
  PROVE  BooksBalance'
<1>1. /\ account \in Account /\ IsFiniteSet(Placed) /\ BooksBalance
  BY DEF AccountInv
<1>2. /\ order.side \in {"BUY", "SELL"} /\ order.status \in {"FILLED", "REJECTED"}
      /\ order.qty \in Nat /\ order.price \in Nat /\ order.instrument \in Instruments
  BY DEF Order
<1>3. 100 + CommissionPct \in Nat /\ 100 - CommissionPct \in Nat
  BY AccountAssumption
<1>4. /\ account.cash \in Nat /\ account'.cash \in Nat
      /\ account.held \in [Instruments -> Nat] /\ account'.held \in [Instruments -> Nat]
  BY <1>1 DEF Account
<1>5. account'.cash = 100 * Capital - SumFunction(Amounts("BUY", 100 + CommissionPct))'
                                    + SumFunction(Amounts("SELL", 100 - CommissionPct))'
  <2> DEFINE b == SumFunction(Amounts("BUY", 100 + CommissionPct))
             s == SumFunction(Amounts("SELL", 100 - CommissionPct))
             c == Cost(order.qty, order.price)
             p == Proceeds(order.qty, order.price)
  <2>1. b \in Int /\ b' = b + (IF order.side = "BUY" /\ order.status = "FILLED" THEN c ELSE 0)
    BY <1>1, <1>3, AmountsStep DEF Cost
  <2>2. s \in Int /\ s' = s + (IF order.side = "SELL" /\ order.status = "FILLED" THEN p ELSE 0)
    BY <1>1, <1>3, AmountsStep DEF Proceeds
  <2>3. account.cash = 100 * Capital - b + s
    BY <1>1 DEF BooksBalance
  <2>4. c \in Int /\ p \in Int
    BY Amounts100 DEF Order
  <2>5. 100 * Capital \in Int
    BY AccountAssumption
  <2> HIDE DEF b, s, c, p
  <2>6. account'.cash = 100 * Capital - b' + s'
    <3>1. CASE order.status = "FILLED" /\ order.side = "BUY"
      <4>1. b' = b + c /\ s' = s /\ account'.cash = account.cash - c
        BY <2>1, <2>2, <3>1 DEF c
      <4>. QED
        BY <1>4, <2>1, <2>2, <2>3, <2>4, <2>5, <4>1
    <3>2. CASE order.status = "FILLED" /\ order.side = "SELL"
      <4>1. b' = b /\ s' = s + p /\ account'.cash = account.cash + p
        BY <2>1, <2>2, <3>2 DEF p
      <4>. QED
        BY <1>4, <2>1, <2>2, <2>3, <2>4, <2>5, <4>1
    <3>3. CASE order.status # "FILLED"
      <4>1. b' = b /\ s' = s /\ account'.cash = account.cash
        BY <2>1, <2>2, <3>3
      <4>. QED
        BY <2>3, <4>1
    <3>. QED
      BY <1>2, <3>1, <3>2, <3>3
  <2>. QED
    BY <2>6 DEF b, s
<1>6. ASSUME NEW i \in Instruments
      PROVE  account'.held[i] = SumFunction(Moved("BUY", i))' - SumFunction(Moved("SELL", i))'
  <2> DEFINE b == SumFunction(Moved("BUY", i))
             s == SumFunction(Moved("SELL", i))
             q == order.qty
  <2>1. b \in Int /\ b' = b + (IF order.side = "BUY" /\ order.status = "FILLED"
                                  /\ order.instrument = i THEN q ELSE 0)
    BY <1>1, MovedStep
  <2>2. s \in Int /\ s' = s + (IF order.side = "SELL" /\ order.status = "FILLED"
                                  /\ order.instrument = i THEN q ELSE 0)
    BY <1>1, MovedStep
  <2>3. account.held[i] = b - s
    BY <1>1 DEF BooksBalance
  <2> HIDE DEF b, s, q
  <2>4. account'.held[i] = b' - s'
    <3>1. CASE order.status = "FILLED" /\ order.side = "BUY" /\ order.instrument = i
      <4>1. b' = b + q /\ s' = s /\ account'.held[i] = account.held[i] + q
        BY <1>4, <2>1, <2>2, <3>1 DEF q
      <4>. QED
        BY <1>2, <2>1, <2>2, <2>3, <4>1 DEF q
    <3>2. CASE order.status = "FILLED" /\ order.side = "SELL" /\ order.instrument = i
      <4>1. b' = b /\ s' = s + q /\ account'.held[i] = account.held[i] - q
        BY <1>4, <2>1, <2>2, <3>2 DEF q
      <4>. QED
        BY <1>2, <2>1, <2>2, <2>3, <4>1 DEF q
    <3>3. CASE order.status # "FILLED" \/ order.instrument # i
      <4>1. b' = b /\ s' = s
        BY <2>1, <2>2, <3>3
      <4>2. account'.held[i] = account.held[i]
        BY <1>2, <1>4, <3>3
      <4>. QED
        BY <2>1, <2>2, <2>3, <4>1, <4>2
    <3>. QED
      BY <1>2, <3>1, <3>2, <3>3
  <2>. QED
    BY <2>4 DEF b, s
<1>. QED
  BY <1>4, <1>5, <1>6 DEF BooksBalance

\* Nor does a sized buy break the sizing's promise.
LEMMA SizedPlaced ==
  ASSUME AccountInv, NEW id \in Ids, NEW order \in Order, Places(id, order),
         order.side = "BUY" =>
           /\ order.status = "FILLED"
           /\ 100 * order.qty * order.price <= SinglePct * Capital
  PROVE  SizedBuysFill'
<1>1. account.orders \in [Ids -> Order \cup {NoOrder}] /\ SizedBuysFill
  BY DEF AccountInv, Account
<1>2. \A x \in Ids : account'.orders[x] = IF x = id THEN order ELSE account.orders[x]
  BY <1>1 DEF Places
<1>. QED
  BY <1>1, <1>2 DEF SizedBuysFill, Known

LEMMA AccountInit == Init => AccountInv
<1> SUFFICES ASSUME Init PROVE AccountInv
  OBVIOUS
<1>1. account = NewAccount
  BY DEF Init
<1>2. account \in Account
  BY <1>1, AccountAssumption DEF NewAccount, Account
<1>3. \A id \in Ids : ~Known(account, id)
  BY <1>1 DEF NewAccount, Known
<1>4. Placed = {} /\ IsFiniteSet(Placed)
  BY <1>3, FS_EmptySet DEF Placed
<1>5. \A side : Filled(side) = {}
  BY <1>3 DEF Filled
<1>6. \A side, pct : SumFunction(Amounts(side, pct)) = 0
  <2> SUFFICES ASSUME NEW side, NEW pct PROVE SumFunction(Amounts(side, pct)) = 0
    OBVIOUS
  <2> DEFINE f == Amounts(side, pct)
  <2>1. DOMAIN f = {}
    BY <1>5 DEF Amounts
  <2> HIDE DEF f
  <2>2. SumFunction(f) = 0
    BY <2>1, SumEmpty DEF SumFunction
  <2>. QED
    BY <2>2 DEF f
<1>7. \A side, i : SumFunction(Moved(side, i)) = 0
  <2> SUFFICES ASSUME NEW side, NEW i PROVE SumFunction(Moved(side, i)) = 0
    OBVIOUS
  <2> DEFINE f == Moved(side, i)
  <2>1. DOMAIN f = {}
    BY <1>5 DEF Moved
  <2> HIDE DEF f
  <2>2. SumFunction(f) = 0
    BY <2>1, SumEmpty DEF SumFunction
  <2>. QED
    BY <2>2 DEF f
<1>8. BooksBalance
  <2>1. account.cash = 100 * Capital /\ \A i \in Instruments : account.held[i] = 0
    BY <1>1 DEF NewAccount
  <2>2. 100 * Capital \in Nat
    BY AccountAssumption
  <2>. QED
    BY <1>6, <1>7, <2>1, <2>2 DEF BooksBalance
<1>9. SizedBuysFill
  BY <1>3 DEF SizedBuysFill
<1>. QED
  BY <1>2, <1>4, <1>8, <1>9 DEF AccountInv

LEMMA AccountFrame == ASSUME AccountInv, UNCHANGED account PROVE AccountInv'
BY DEF AccountInv, Placed, BooksBalance, SizedBuysFill, Filled, Amounts, Moved, Known

\* submit_buy with the size it was given.
LEMMA AccountBuy ==
  ASSUME AccountInv, prices \in [Instruments -> Nat \ {0}],
         NEW id \in Ids, NEW i \in Instruments, NEW stopPct \in Nat \ {0}, Buy(id, i, stopPct)
  PROVE  AccountInv'
<1> DEFINE price == prices[i]
           qty == Sized(account.cash, prices[i], stopPct)
           order == Made("BUY", i, qty, price, "FILLED")
<1>1. account \in Account /\ account.cash \in Nat /\ price \in Nat \ {0}
  BY DEF AccountInv, Account
<1>2. qty \in Nat /\ Cost(qty, price) <= account.cash /\ 100 * qty * price <= SinglePct * Capital
  BY <1>1, SizedFits
<1>3. \/ UNCHANGED account
      \/ ~Known(account, id) /\ qty > 0 /\ account' = FillBuy(account, id, i, qty, price)
  BY DEF Buy, SubmitBuy
<1> HIDE DEF price, qty
<1>4. CASE UNCHANGED account
  BY <1>4, AccountFrame
<1>5. CASE ~Known(account, id) /\ qty > 0 /\ account' = FillBuy(account, id, i, qty, price)
  <2>1. /\ account' \in Account
        /\ account'.orders = [account.orders EXCEPT ![id] = order]
        /\ account'.cash = account.cash - Cost(qty, price)
        /\ account'.held = [account.held EXCEPT ![i] = @ + qty]
    <3>1. qty \in Nat \ {0}
      BY <1>2, <1>5
    <3>. QED
      BY <1>1, <1>2, <1>5, <3>1, BuyFilled
  <2>2. /\ order \in Order /\ order.side = "BUY" /\ order.status = "FILLED"
        /\ order.qty = qty /\ order.price = price /\ order.instrument = i
    BY <1>1, <1>2, <1>5 DEF Made, Order
  <2> HIDE DEF order
  <2>3. Places(id, order)
    BY <1>5, <2>1 DEF Places
  <2>4. BooksBalance'
    BY <2>1, <2>2, <2>3, BalancePlaced
  <2>5. SizedBuysFill'
    BY <1>2, <2>2, <2>3, SizedPlaced
  <2>6. IsFiniteSet(Placed)'
    BY <1>1, <2>2, <2>3, FilledStep DEF AccountInv
  <2>. QED
    BY <2>1, <2>4, <2>5, <2>6 DEF AccountInv
<1>. QED
  BY <1>3, <1>4, <1>5

\* submit_sell, of any quantity.
LEMMA AccountSell ==
  ASSUME AccountInv, prices \in [Instruments -> Nat \ {0}],
         NEW id \in Ids, NEW i \in Instruments, NEW qty \in Nat \ {0}, Sell(id, i, qty)
  PROVE  AccountInv'
<1> DEFINE price == prices[i]
           order(status) == Made("SELL", i, qty, price, status)
<1>1. account \in Account /\ account.held \in [Instruments -> Nat] /\ price \in Nat \ {0}
  BY DEF AccountInv, Account
<1>2. \/ UNCHANGED account
      \/ ~Known(account, id) /\ account' = FillSell(account, id, i, qty, price)
  BY DEF Sell, SubmitSell
<1> HIDE DEF price
<1>3. ASSUME NEW status \in {"FILLED", "REJECTED"}
      PROVE  /\ order(status) \in Order /\ order(status).side = "SELL"
             /\ order(status).status = status /\ order(status).instrument = i
             /\ order(status).qty = qty /\ order(status).price = price
  BY <1>1 DEF Made, Order
<1> HIDE DEF order
<1>4. CASE UNCHANGED account
  BY <1>4, AccountFrame
<1>5. CASE ~Known(account, id) /\ account' = FillSell(account, id, i, qty, price)
  <2>1. ASSUME NEW status \in {"FILLED", "REJECTED"}, account' \in Account,
               account'.orders = [account.orders EXCEPT ![id] = order(status)],
               status = "FILLED" =>
                 /\ account'.cash = account.cash + Proceeds(qty, price)
                 /\ account'.held = [account.held EXCEPT ![i] = @ - qty],
               status # "FILLED" => account'.cash = account.cash /\ account'.held = account.held
        PROVE  AccountInv'
    <3> DEFINE new == order(status)
    <3>1. /\ new \in Order /\ new.side = "SELL" /\ new.status = status
          /\ new.instrument = i /\ new.qty = qty /\ new.price = price
      BY <1>3
    <3>2. Places(id, new)
      BY <1>5, <2>1 DEF Places
    <3> HIDE DEF new
    <3>3. BooksBalance'
      BY <2>1, <3>1, <3>2, BalancePlaced
    <3>4. SizedBuysFill'
      BY <3>1, <3>2, SizedPlaced
    <3>5. IsFiniteSet(Placed)'
      BY <1>1, <3>1, <3>2, FilledStep DEF AccountInv
    <3>. QED
      BY <2>1, <3>3, <3>4, <3>5 DEF AccountInv
  <2>2. CASE qty <= account.held[i]
    <3>1. /\ account' \in Account
          /\ account'.orders = [account.orders EXCEPT ![id] = Made("SELL", i, qty, price, "FILLED")]
          /\ account'.cash = account.cash + Proceeds(qty, price)
          /\ account'.held = [account.held EXCEPT ![i] = @ - qty]
      BY <1>1, <1>5, <2>2, SellFilled
    <3>. QED
      BY <2>1, <3>1 DEF order
  <2>3. CASE ~(qty <= account.held[i])
    <3>1. /\ account' \in Account
          /\ account'.orders = [account.orders EXCEPT ![id] = Made("SELL", i, qty, price, "REJECTED")]
          /\ account'.cash = account.cash /\ account'.held = account.held
      BY <1>1, <1>5, <2>3, SellRejected
    <3>. QED
      BY <2>1, <3>1 DEF order
  <2>. QED
    BY <2>2, <2>3
<1>. QED
  BY <1>2, <1>4, <1>5

-----------------------------------------------------------------------------
(* The engine's record and the history of marks *)

\* A mark the peak accounts for.
Recent(m) == m \in since .. Len(marks) /\ m > 0

RiskTypes ==
  /\ risk \in Risk
  /\ day \in 1 .. MaxDays
  /\ prices \in [Instruments -> Prices]
  /\ marks \in Seq([day : 1 .. MaxDays, equity : Nat])
  /\ since \in 0 .. Len(marks)

LastMark ==
  /\ Len(marks) = 0 => risk.day = 0 /\ risk.month = 0
  /\ Len(marks) > 0 =>
       /\ risk.day = marks[Len(marks)].day
       /\ risk.month = MonthOf(risk.day)
       /\ risk.current = marks[Len(marks)].equity

DaysOrdered ==
  \A n \in 1 .. Len(marks) : marks[n].day <= day /\ \A m \in 1 .. n : marks[m].day <= marks[n].day

PeakIsHighest ==
  /\ \A m \in 1 .. Len(marks) : Recent(m) => marks[m].equity <= risk.peak
  /\ risk.peak = 0 \/ \E m \in 1 .. Len(marks) : Recent(m) /\ marks[m].equity = risk.peak

Baselines ==
  \A n \in 1 .. Len(marks) :
    /\ FirstOfDay(n) => marks[n].equity = risk.dayStart
    /\ FirstOfMonth(n) => marks[n].equity = risk.monthStart

RiskInv ==
  /\ RiskTypes
  /\ LastMark
  /\ DaysOrdered
  /\ PeakIsHighest
  /\ Baselines
  /\ KillSwitchLatches

LEMMA MarkTypes ==
  ASSUME RiskTypes
  PROVE  /\ Len(marks) \in Nat /\ day \in Nat \ {0} /\ prices \in [Instruments -> Nat \ {0}]
         /\ \A n \in 1 .. Len(marks) :
              /\ marks[n].equity \in Nat /\ marks[n].day \in 1 .. MaxDays
              /\ marks[n].day \in Nat \ {0}
<1>1. Len(marks) \in Nat
  BY DEF RiskTypes
<1>2. day \in Nat \ {0}
  BY BoundsAssumption DEF RiskTypes
<1>3. prices \in [Instruments -> Nat \ {0}]
  BY PricesAssumption DEF RiskTypes
<1>4. ASSUME NEW n \in 1 .. Len(marks)
      PROVE  /\ marks[n].equity \in Nat /\ marks[n].day \in 1 .. MaxDays
             /\ marks[n].day \in Nat \ {0}
  <2>1. marks[n] \in [day : 1 .. MaxDays, equity : Nat]
    BY ElementOfSeq DEF RiskTypes
  <2>. QED
    BY <2>1, BoundsAssumption
<1>. QED
  BY <1>1, <1>2, <1>3, <1>4

LEMMA RiskInit == Init => RiskInv
<1> SUFFICES ASSUME Init PROVE RiskInv
  OBVIOUS
<1>1. /\ risk = NewRisk /\ day = 1 /\ marks = <<>> /\ since = 0 /\ Len(marks) = 0
      /\ prices \in [Instruments -> Prices]
  BY DEF Init
<1>2. RiskTypes
  <2>1. NewRisk \in Risk
    BY DEF NewRisk, Risk
  <2>. QED
    BY <1>1, <2>1, BoundsAssumption DEF RiskTypes
<1>3. LastMark /\ PeakIsHighest
  BY <1>1 DEF LastMark, PeakIsHighest, NewRisk
<1>4. DaysOrdered /\ Baselines
  BY <1>1 DEF DaysOrdered, Baselines
<1>5. KillSwitchLatches
  BY <1>1 DEF KillSwitchLatches, NewRisk
<1>. QED
  BY <1>2, <1>3, <1>4, <1>5 DEF RiskInv

LEMMA RiskFrame ==
  ASSUME RiskInv, UNCHANGED <<risk, marks, since>>,
         day' \in 1 .. MaxDays, day <= day', prices' \in [Instruments -> Prices]
  PROVE  RiskInv'
<1>1. RiskTypes' /\ LastMark' /\ PeakIsHighest' /\ Baselines' /\ KillSwitchLatches'
  BY DEF RiskInv, RiskTypes, LastMark, PeakIsHighest, Recent, Baselines, FirstOfDay, FirstOfMonth,
         KillSwitchLatches
<1>2. DaysOrdered'
  <2>1. Len(marks) \in Nat /\ \A n \in 1 .. Len(marks) : marks[n].day \in Int
    BY MarkTypes DEF RiskInv
  <2>2. day \in Int /\ day' \in Int
    BY DEF RiskInv, RiskTypes
  <2>3. \A n \in 1 .. Len(marks) : marks[n].day <= day'
    BY <2>1, <2>2 DEF RiskInv, DaysOrdered
  <2>. QED
    BY <2>3 DEF RiskInv, DaysOrdered
<1>. QED
  BY <1>1, <1>2 DEF RiskInv

LEMMA RiskMark ==
  ASSUME RiskInv, account \in Account, Mark PROVE RiskInv'
<1>0. RiskTypes
  BY DEF RiskInv
<1>e. Equity(account, prices) \in Nat
  <2>1. prices \in [Instruments -> Nat]
    BY <1>0, MarkTypes
  <2>. QED
    BY <2>1, EquityType
<1>2. PICK e \in Nat : e = Equity(account, prices)
  BY <1>e
<1>l. PICK L \in Nat : L = Len(marks)
  BY <1>0, MarkTypes
<1>1. /\ L \in Nat /\ L = Len(marks) /\ since \in 0 .. L
      /\ day \in Nat \ {0} /\ day \in 1 .. MaxDays
      /\ risk \in Risk /\ risk.peak \in Int
  BY <1>0, <1>l, MarkTypes DEF RiskTypes, Risk
<1>3. /\ risk' = Marked(risk, e, day) /\ marks' = Append(marks, [day |-> day, equity |-> e])
      /\ day' = day /\ prices' = prices /\ since' = since
  BY <1>2 DEF Mark
<1>4. /\ risk' \in Risk
      /\ risk'.peak = IF e > risk.peak THEN e ELSE risk.peak
      /\ risk'.current = e /\ risk'.day = day /\ risk'.month = MonthOf(day)
      /\ risk'.dayStart = IF risk.day = day THEN risk.dayStart ELSE e
      /\ risk'.monthStart = IF risk.month = MonthOf(day) THEN risk.monthStart ELSE e
      /\ risk'.kill = (risk.kill \/ Breached(risk'.peak, e))
  BY <1>1, <1>2, <1>3, MarkedRecord
<1>5. /\ marks' \in Seq([day : 1 .. MaxDays, equity : Nat])
      /\ Len(marks') = L + 1
      /\ \A n \in 1 .. L : marks'[n] = marks[n] /\ marks[n].equity \in Nat
                           /\ marks[n].day \in 1 .. MaxDays
      /\ marks'[L + 1].day = day /\ marks'[L + 1].equity = e
  <2> DEFINE new == [day |-> day, equity |-> e]
  <2>1. marks \in Seq([day : 1 .. MaxDays, equity : Nat]) /\ new \in [day : 1 .. MaxDays, equity : Nat]
    BY <1>0, <1>1, <1>2 DEF RiskTypes
  <2> HIDE DEF new
  <2>2. marks' = Append(marks, new)
    BY <1>3 DEF new
  <2>3. /\ marks' \in Seq([day : 1 .. MaxDays, equity : Nat])
        /\ Len(marks') = L + 1
        /\ \A n \in 1 .. L : marks'[n] = marks[n]
        /\ marks'[L + 1] = new
    BY <1>1, <2>1, <2>2, AppendProperties
  <2>. QED
    BY <1>0, <1>1, <2>3, MarkTypes DEF new
<1>6. RiskTypes'
  BY <1>0, <1>1, <1>3, <1>4, <1>5 DEF RiskTypes
<1>7. LastMark'
  BY <1>1, <1>4, <1>5 DEF LastMark
<1>8. DaysOrdered'
  <2>1. \A n \in 1 .. L : marks[n].day <= day /\ \A m \in 1 .. n : marks[m].day <= marks[n].day
    BY <1>1 DEF RiskInv, DaysOrdered
  <2>2. ASSUME NEW n \in 1 .. L + 1
        PROVE  marks'[n].day <= day /\ \A m \in 1 .. n : marks'[m].day <= marks'[n].day
    <3>1. CASE n = L + 1
      <4>1. \A m \in 1 .. L : marks'[m].day <= day
        BY <1>5, <2>1
      <4>2. \A m \in 1 .. n : m \in 1 .. L \/ m = L + 1
        BY <1>1, <3>1
      <4>3. marks'[L + 1].day = day /\ day <= day
        BY <1>1, <1>5
      <4>. QED
        BY <3>1, <4>1, <4>2, <4>3
    <3>2. CASE n # L + 1
      <4>1. n \in 1 .. L /\ \A m \in 1 .. n : m \in 1 .. L
        BY <1>1, <3>2
      <4>. QED
        BY <1>5, <2>1, <4>1
    <3>. QED
      BY <3>1, <3>2
  <2>. QED
    BY <1>3, <1>5, <2>2 DEF DaysOrdered
<1>9. PeakIsHighest'
  <2>1. \A m \in 1 .. L : Recent(m) => marks[m].equity <= risk.peak
    BY <1>1 DEF RiskInv, PeakIsHighest
  <2>2. risk.peak = 0 \/ \E m \in 1 .. L : Recent(m) /\ marks[m].equity = risk.peak
    BY <1>1 DEF RiskInv, PeakIsHighest
  <2>3. \A m \in 1 .. L : Recent(m)' <=> Recent(m)
    BY <1>1, <1>3, <1>5 DEF Recent
  <2>4. Recent(L + 1)'
    BY <1>1, <1>3, <1>5 DEF Recent
  <2>5. \A m \in 1 .. L + 1 : m \in 1 .. L \/ m = L + 1
    BY <1>1
  <2>6. ASSUME NEW m \in 1 .. L + 1, Recent(m)' PROVE marks'[m].equity <= risk'.peak
    <3>1. risk'.peak \in Int /\ e <= risk'.peak /\ risk.peak <= risk'.peak
      BY <1>1, <1>2, <1>4
    <3>2. CASE m \in 1 .. L
      <4>1. marks'[m] = marks[m] /\ marks[m].equity \in Nat /\ marks[m].equity <= risk.peak
        BY <1>5, <2>1, <2>3, <2>6, <3>2
      <4>. QED
        BY <1>1, <3>1, <4>1
    <3>3. CASE m = L + 1
      BY <1>5, <3>1, <3>3
    <3>. QED
      BY <2>5, <3>2, <3>3
  <2>7. risk'.peak = 0 \/ \E m \in 1 .. L + 1 : Recent(m)' /\ marks'[m].equity = risk'.peak
    <3>1. CASE e > risk.peak
      <4>1. L + 1 \in 1 .. L + 1 /\ marks'[L + 1].equity = risk'.peak
        BY <1>1, <1>4, <1>5, <3>1
      <4>. QED
        BY <2>4, <4>1
    <3>2. CASE ~(e > risk.peak)
      <4>1. \A m \in 1 .. L : m \in 1 .. L + 1
        BY <1>1
      <4>. QED
        BY <1>4, <1>5, <2>2, <2>3, <3>2, <4>1
    <3>. QED
      BY <3>1, <3>2
  <2>. QED
    BY <1>5, <2>6, <2>7 DEF PeakIsHighest
<1>10. Baselines'
  <2>1. \A n \in 1 .. L : marks[n].day <= day /\ \A m \in 1 .. n : marks[m].day <= marks[n].day
    BY <1>1 DEF RiskInv, DaysOrdered
  <2>2. ASSUME NEW n \in 1 .. L + 1, FirstOfDay(n)' PROVE marks'[n].equity = risk'.dayStart
    <3>1. marks'[n].day = day /\ \A m \in 1 .. n - 1 : marks'[m].day # day
      BY <1>5, <2>2 DEF FirstOfDay
    <3>2. CASE n = L + 1
      <4>1. risk.day # day
        <5>1. CASE L = 0
          BY <1>1, <5>1 DEF RiskInv, LastMark
        <5>2. CASE L # 0
          <6>1. L \in 1 .. n - 1 /\ L \in 1 .. L /\ risk.day = marks[L].day
            BY <1>1, <3>2, <5>2 DEF RiskInv, LastMark
          <6>. QED
            BY <1>5, <3>1, <6>1
        <5>. QED
          BY <5>1, <5>2
      <4>. QED
        BY <1>4, <1>5, <3>2, <4>1
    <3>3. CASE n # L + 1
      <4>1. n \in 1 .. L /\ L \in 1 .. L /\ n \in 1 .. L /\ \A m \in 1 .. n - 1 : m \in 1 .. L
        BY <1>1, <3>3
      <4>2. marks[n].day = day /\ \A m \in 1 .. n - 1 : marks[m].day # day
        BY <1>5, <3>1, <4>1
      <4>3. marks[L].day = day
        <5>1. marks[L].day <= day /\ marks[n].day <= marks[L].day
          BY <2>1, <4>1
        <5>2. marks[L].day \in Int
          BY <1>5, <4>1
        <5>. QED
          BY <1>1, <4>2, <5>1, <5>2
      <4>4. FirstOfDay(n) /\ risk.day = day
        BY <1>1, <4>1, <4>2, <4>3 DEF FirstOfDay, RiskInv, LastMark
      <4>5. marks[n].equity = risk.dayStart
        BY <1>1, <4>1, <4>4 DEF RiskInv, Baselines
      <4>. QED
        BY <1>4, <1>5, <4>1, <4>4, <4>5
    <3>. QED
      BY <3>2, <3>3
  <2>3. ASSUME NEW n \in 1 .. L + 1, FirstOfMonth(n)' PROVE marks'[n].equity = risk'.monthStart
    <3>1. /\ MonthOf(marks'[n].day) = MonthOf(day)
          /\ \A m \in 1 .. n - 1 : MonthOf(marks'[m].day) # MonthOf(day)
      BY <1>5, <2>3 DEF FirstOfMonth
    <3>2. CASE n = L + 1
      <4>1. risk.month # MonthOf(day)
        <5>1. CASE L = 0
          <6>1. MonthOf(day) # 0
            BY <1>1, MonthType
          <6>. QED
            BY <1>1, <5>1, <6>1 DEF RiskInv, LastMark
        <5>2. CASE L # 0
          <6>1. L \in 1 .. n - 1 /\ L \in 1 .. L /\ risk.month = MonthOf(marks[L].day)
            BY <1>1, <3>2, <5>2 DEF RiskInv, LastMark
          <6>. QED
            BY <1>5, <3>1, <6>1
        <5>. QED
          BY <5>1, <5>2
      <4>. QED
        BY <1>4, <1>5, <3>2, <4>1
    <3>3. CASE n # L + 1
      <4>1. n \in 1 .. L /\ L \in 1 .. L /\ \A m \in 1 .. n - 1 : m \in 1 .. L
        BY <1>1, <3>3
      <4>2. /\ MonthOf(marks[n].day) = MonthOf(day)
            /\ \A m \in 1 .. n - 1 : MonthOf(marks[m].day) # MonthOf(day)
        BY <1>5, <3>1, <4>1
      <4>3. MonthOf(marks[L].day) = MonthOf(day)
        <5>1. marks[L].day <= day /\ marks[n].day <= marks[L].day
          BY <2>1, <4>1
        <5>2. marks[L].day \in Nat \ {0} /\ marks[n].day \in Nat \ {0}
          BY <1>5, <4>1
        <5>3. /\ MonthOf(marks[L].day) <= MonthOf(day)
              /\ MonthOf(marks[n].day) <= MonthOf(marks[L].day)
          BY <1>1, <5>1, <5>2, MonthMonotone
        <5>4. MonthOf(marks[L].day) \in Nat /\ MonthOf(marks[n].day) \in Nat /\ MonthOf(day) \in Nat
          BY <1>1, <5>2, MonthType
        <5>. QED
          BY <4>2, <5>3, <5>4
      <4>4. FirstOfMonth(n) /\ risk.month = MonthOf(day)
        BY <1>1, <4>1, <4>2, <4>3 DEF FirstOfMonth, RiskInv, LastMark
      <4>5. marks[n].equity = risk.monthStart
        BY <1>1, <4>1, <4>4 DEF RiskInv, Baselines
      <4>. QED
        BY <1>4, <1>5, <4>1, <4>4, <4>5
    <3>. QED
      BY <3>2, <3>3
  <2>. QED
    BY <1>5, <2>2, <2>3 DEF Baselines
<1>11. KillSwitchLatches'
  <2>1. risk.kill <=> \E n \in since + 1 .. L : \E m \in since .. n :
                        m > 0 /\ Breached(marks[m].equity, marks[n].equity)
    BY <1>1 DEF RiskInv, KillSwitchLatches
  <2>2. ASSUME NEW n \in since + 1 .. L, NEW m \in since .. n, m > 0
        PROVE  marks'[m].equity = marks[m].equity /\ marks'[n].equity = marks[n].equity
    <3>1. n \in 1 .. L /\ m \in 1 .. L
      BY <1>1, <2>2
    <3>. QED
      BY <1>5, <3>1
  <2>3. (\E n \in since + 1 .. L : \E m \in since .. n :
            m > 0 /\ Breached(marks'[m].equity, marks'[n].equity)) <=> risk.kill
    BY <2>1, <2>2
  <2>4. (\E m \in since .. L + 1 : m > 0 /\ Breached(marks'[m].equity, e))
           <=> Breached(risk'.peak, e)
    <3>1. ASSUME NEW m \in since .. L + 1, m > 0, Breached(marks'[m].equity, e)
          PROVE  Breached(risk'.peak, e)
      <4>1. m \in 1 .. L + 1 /\ Recent(m)'
        BY <1>1, <1>3, <1>5, <3>1 DEF Recent
      <4>2. marks'[m].equity <= risk'.peak
        BY <1>5, <1>9, <4>1 DEF PeakIsHighest
      <4>3. marks'[m].equity \in Int
        <5>1. m \in 1 .. L \/ m = L + 1
          BY <1>1, <4>1
        <5>. QED
          BY <1>2, <1>5, <5>1
      <4>4. risk'.peak \in Int /\ e \in Int
        BY <1>2, <1>4 DEF Risk
      <4>. QED
        BY <3>1, <4>2, <4>3, <4>4, BreachGrows
    <3>2. ASSUME Breached(risk'.peak, e)
          PROVE  \E m \in since .. L + 1 : m > 0 /\ Breached(marks'[m].equity, e)
      <4>1. risk'.peak # 0
        BY <3>2 DEF Breached
      <4>2. PICK m \in 1 .. L + 1 : Recent(m)' /\ marks'[m].equity = risk'.peak
        BY <1>5, <1>9, <4>1 DEF PeakIsHighest
      <4>3. m \in since .. L + 1 /\ m > 0
        BY <1>3, <1>5, <4>2 DEF Recent
      <4>. QED
        BY <3>2, <4>2, <4>3
    <3>. QED
      BY <3>1, <3>2
  <2>5. (\E n \in since + 1 .. L + 1 : \E m \in since .. n :
            m > 0 /\ Breached(marks'[m].equity, marks'[n].equity))
          <=> risk.kill \/ Breached(risk'.peak, e)
    <3>1. since + 1 .. L + 1 = (since + 1 .. L) \cup {L + 1}
      BY <1>1
    <3>. QED
      BY <1>5, <2>3, <2>4, <3>1
  <2>. QED
    BY <1>3, <1>4, <1>5, <2>5 DEF KillSwitchLatches
<1>. QED
  BY <1>6, <1>7, <1>8, <1>9, <1>10, <1>11 DEF RiskInv

\* reset_kill_switch: the mark in force becomes the peak.
LEMMA RiskReset ==
  ASSUME RiskInv, ResetKillSwitch PROVE RiskInv'
<1>1. /\ risk' = Reset(risk) /\ since' = Len(marks)
      /\ marks' = marks /\ day' = day /\ prices' = prices
  BY DEF ResetKillSwitch
<1>2. risk \in Risk /\ Len(marks) \in Nat /\ RiskTypes
  BY DEF RiskInv, RiskTypes
<1>3. /\ risk' \in Risk /\ risk'.peak = IF risk.day = 0 THEN risk.peak ELSE risk.current
      /\ risk'.kill = FALSE /\ risk'.current = risk.current /\ risk'.day = risk.day
      /\ risk'.month = risk.month
      /\ risk'.dayStart = risk.dayStart /\ risk'.monthStart = risk.monthStart
  BY <1>1, <1>2, ResetRecord
<1>4. RiskTypes'
  BY <1>1, <1>2, <1>3 DEF RiskTypes
<1>5. LastMark' /\ DaysOrdered'
  BY <1>1, <1>3 DEF RiskInv, LastMark, DaysOrdered
<1>6. Baselines'
  BY <1>1, <1>3 DEF RiskInv, Baselines, FirstOfDay, FirstOfMonth
<1>7. KillSwitchLatches'
  <2>1. Len(marks) + 1 .. Len(marks) = {}
    BY <1>2
  <2>. QED
    BY <1>1, <1>3, <2>1 DEF KillSwitchLatches
<1>8. PeakIsHighest'
  <2>1. CASE Len(marks) = 0
    <3>1. since = 0 /\ risk.day = 0 /\ risk'.peak = risk.peak
      BY <1>2, <1>3, <2>1 DEF RiskInv, RiskTypes, LastMark
    <3>. QED
      BY <1>1, <2>1, <3>1 DEF RiskInv, PeakIsHighest, Recent
  <2>2. CASE Len(marks) # 0
    <3>1. /\ Len(marks) \in 1 .. Len(marks)
          /\ risk.day = marks[Len(marks)].day /\ risk.current = marks[Len(marks)].equity
      BY <1>2, <2>2 DEF RiskInv, LastMark
    <3>2. marks[Len(marks)].day \in 1 .. MaxDays /\ marks[Len(marks)].equity \in Nat
      BY <1>2, <3>1, MarkTypes
    <3>3. risk'.peak = marks[Len(marks)].equity
      BY <1>3, <3>1, <3>2
    <3>4. \A m \in 1 .. Len(marks) : Recent(m)' <=> m = Len(marks)
      BY <1>1, <1>2 DEF Recent
    <3>. QED
      BY <1>1, <3>1, <3>2, <3>3, <3>4 DEF PeakIsHighest
  <2>. QED
    BY <2>1, <2>2
<1>. QED
  BY <1>4, <1>5, <1>6, <1>7, <1>8 DEF RiskInv

-----------------------------------------------------------------------------
(* The theorems *)

Inv == AccountInv /\ RiskInv

\* Every step of the gate, from a state of the invariant, leads to one.
LEMMA InductiveInvariant == Spec => []Inv
<1>1. Init => Inv
  BY AccountInit, RiskInit DEF Inv
<1>2. ASSUME Inv, [Next]_vars PROVE Inv'
  <2>1. /\ AccountInv /\ RiskInv /\ RiskTypes /\ account \in Account
        /\ prices \in [Instruments -> Nat \ {0}]
    BY <1>2, MarkTypes DEF Inv, RiskInv, AccountInv
  <2>2. day \in 1 .. MaxDays /\ day \in Int /\ prices \in [Instruments -> Prices]
    BY <2>1 DEF RiskTypes
  <2>3. CASE Bar
    <3>1. day' \in 1 .. MaxDays /\ day <= day' /\ prices' \in [Instruments -> Prices]
      BY <2>2, <2>3 DEF Bar
    <3>. QED
      BY <2>1, <2>3, <3>1, AccountFrame, RiskFrame DEF Bar, Inv
  <2>4. CASE Mark
    BY <2>1, <2>4, AccountFrame, RiskMark DEF Mark, Inv
  <2>5. ASSUME NEW id \in Ids, NEW i \in Instruments, NEW stopPct \in StopPcts, Buy(id, i, stopPct)
        PROVE  Inv'
    <3>1. stopPct \in Nat \ {0}
      BY PricesAssumption
    <3>2. UNCHANGED <<risk, day, prices, marks, since>> /\ day <= day'
      BY <2>2, <2>5 DEF Buy
    <3>3. AccountInv'
      BY <2>1, <2>5, <3>1, AccountBuy
    <3>4. RiskInv'
      BY <2>1, <2>2, <3>2, RiskFrame
    <3>. QED
      BY <3>3, <3>4 DEF Inv
  <2>6. ASSUME NEW id \in Ids, NEW i \in Instruments,
               Sell(id, i, IF account.held[i] > 0 THEN account.held[i] ELSE 1)
        PROVE  Inv'
    <3>1. PICK qty \in Nat \ {0} : qty = IF account.held[i] > 0 THEN account.held[i] ELSE 1
      <4>1. account.held[i] \in Nat
        BY <2>1 DEF Account
      <4>. QED
        BY <4>1
    <3>2. Sell(id, i, qty)
      BY <2>6, <3>1
    <3>3. UNCHANGED <<risk, day, prices, marks, since>> /\ day <= day'
      BY <2>2, <3>2 DEF Sell
    <3>4. AccountInv'
      BY <2>1, <3>2, AccountSell
    <3>5. RiskInv'
      BY <2>1, <2>2, <3>3, RiskFrame
    <3>. QED
      BY <3>4, <3>5 DEF Inv
  <2>7. CASE ResetKillSwitch
    BY <2>1, <2>7, AccountFrame, RiskReset DEF ResetKillSwitch, Inv
  <2>8. CASE UNCHANGED vars
    BY <2>1, <2>2, <2>8, AccountFrame, RiskFrame DEF vars, Inv
  <2>. QED
    BY <1>2, <2>3, <2>4, <2>5, <2>6, <2>7, <2>8 DEF Next
<1>. QED
  BY <1>1, <1>2, PTL DEF Spec

\* The account, the engine's record and the history keep their types: no fill
\* leaves a fraction or a negative amount.
THEOREM TypeCorrect == Spec => []TypeOK
<1>1. Inv => TypeOK
  <2> SUFFICES ASSUME Inv PROVE TypeOK
    OBVIOUS
  <2>1. marks \in Seq([day : 1 .. MaxDays, equity : Int])
    <3> DEFINE M == [day : 1 .. MaxDays, equity : Int]
    <3>1. Len(marks) \in Nat /\ marks \in [1 .. Len(marks) -> M]
      <4>1. marks \in Seq([day : 1 .. MaxDays, equity : Nat])
        BY DEF Inv, RiskInv, RiskTypes
      <4>2. [day : 1 .. MaxDays, equity : Nat] \subseteq M
        OBVIOUS
      <4> HIDE DEF M
      <4>. QED
        BY <4>1, <4>2, LenProperties, ElementOfSeq
    <3> HIDE DEF M
    <3>2. marks \in Seq(M)
      BY <3>1, IsASeq
    <3>. QED
      BY <3>2 DEF M
  <2>. QED
    BY <2>1 DEF Inv, AccountInv, RiskInv, RiskTypes, TypeOK
<1>. QED
  BY <1>1, InductiveInvariant, PTL

\* Cash and positions are what the filled orders say, and neither is negative,
\* whatever is submitted, repeated or rejected (PaperBroker).
THEOREM BooksAreBalanced == Spec => []BooksBalance
<1>1. Inv => BooksBalance
  BY DEF Inv, AccountInv
<1>. QED
  BY <1>1, InductiveInvariant, PTL

\* No buy the manager sized is rejected or exceeds the single-position limit
\* (size_new_position).
THEOREM SizedBuysAreFilled == Spec => []SizedBuysFill
<1>1. Inv => SizedBuysFill
  BY DEF Inv, AccountInv
<1>. QED
  BY <1>1, InductiveInvariant, PTL

\* The kill switch says of the whole history since the last reset whether the
\* drawdown was breached, though the engine keeps only a peak (mark_to_market).
THEOREM KillSwitchIsExact == Spec => []KillSwitchLatches
<1>1. Inv => KillSwitchLatches
  BY DEF Inv, RiskInv
<1>. QED
  BY <1>1, InductiveInvariant, PTL

LEMMA OneMoreOpen ==
  ASSUME NEW acc \in Account, NEW new \in Account, NEW i \in Instruments, NEW qty \in Nat \ {0},
         new.held = [acc.held EXCEPT ![i] = @ + qty]
  PROVE  OpenCount(acc) \in Nat /\ OpenCount(new) \in Nat /\ OpenCount(new) <= OpenCount(acc) + 1
<1> DEFINE S == {j \in Instruments : acc.held[j] > 0}
           T == {j \in Instruments : new.held[j] > 0}
<1>1. acc.held \in [Instruments -> Nat] /\ new.held \in [Instruments -> Nat]
  BY DEF Account
<1>2. T = S \cup {i}
  <2>1. \A j \in Instruments : new.held[j] = IF j = i THEN acc.held[i] + qty ELSE acc.held[j]
    BY <1>1
  <2>2. acc.held[i] + qty > 0
    BY <1>1
  <2>. QED
    BY <1>1, <2>1, <2>2
<1>3. IsFiniteSet(S)
  BY HoldingsAssumption, FS_Subset
<1> HIDE DEF S, T
<1>4. /\ Cardinality(S) \in Nat
      /\ Cardinality(S \cup {i}) = Cardinality(S) \/ Cardinality(S \cup {i}) = Cardinality(S) + 1
  BY <1>3, FS_AddElement, FS_CardinalityType
<1>5. OpenCount(acc) = Cardinality(S) /\ OpenCount(new) = Cardinality(T)
  BY DEF OpenCount, S, T
<1>. QED
  BY <1>2, <1>4, <1>5

LEMMA OnlyBuysAreBought ==
  ASSUME account \in Account, NEW id \in Ids, NEW i \in Instruments, NEW qty \in Nat \ {0},
         prices \in [Instruments -> Nat \ {0}], Sell(id, i, qty)
  PROVE  Bought' = Bought
<1> DEFINE price == prices[i]
<1>1. price \in Nat \ {0} /\ account.orders \in [Ids -> Order \cup {NoOrder}]
  BY DEF Account
<1>2. \/ UNCHANGED account
      \/ ~Known(account, id) /\ account' = FillSell(account, id, i, qty, price)
  BY DEF Sell, SubmitSell
<1> HIDE DEF price
<1>3. CASE UNCHANGED account
  BY <1>3 DEF Bought, Known
<1>4. CASE ~Known(account, id) /\ account' = FillSell(account, id, i, qty, price)
  <2>1. PICK status \in {"FILLED", "REJECTED"} :
          account'.orders = [account.orders EXCEPT ![id] = Made("SELL", i, qty, price, status)]
    <3>1. CASE qty <= account.held[i]
      <4>1. /\ account' \in Account
            /\ account'.orders = [account.orders EXCEPT ![id] = Made("SELL", i, qty, price, "FILLED")]
            /\ account'.cash = account.cash + Proceeds(qty, price)
            /\ account'.held = [account.held EXCEPT ![i] = @ - qty]
        BY <1>1, <1>4, <3>1, SellFilled
      <4>. QED
        BY <4>1
    <3>2. CASE ~(qty <= account.held[i])
      <4>1. /\ account' \in Account
            /\ account'.orders = [account.orders EXCEPT ![id] = Made("SELL", i, qty, price, "REJECTED")]
            /\ account'.cash = account.cash /\ account'.held = account.held
        BY <1>1, <1>4, <3>2, SellRejected
      <4>. QED
        BY <4>1
    <3>. QED
      BY <3>1, <3>2
  <2>2. Made("SELL", i, qty, price, status).side = "SELL"
    BY DEF Made
  <2>3. \A x \in Ids : account'.orders[x] = IF x = id THEN Made("SELL", i, qty, price, status)
                                            ELSE account.orders[x]
    BY <1>1, <2>1
  <2>4. \A x \in Ids : x \in Bought' <=> x \in Bought
    BY <1>4, <2>2, <2>3 DEF Bought, Known
  <2>. QED
    BY <2>4 DEF Bought
<1>. QED
  BY <1>2, <1>3, <1>4

\* A buy that changes the account was approved.
LEMMA BoughtWithinLimits ==
  ASSUME Inv, NEW id \in Ids, NEW i \in Instruments, NEW stopPct \in StopPcts,
         Buy(id, i, stopPct), Bought' # Bought
  PROVE  /\ \A n \in since + 1 .. Len(marks), m \in since .. Len(marks) :
              0 < m /\ m <= n => ~Breached(marks[m].equity, marks[n].equity)
         /\ \A n \in DOMAIN marks :
              /\ FirstOfDay(n) => marks[n].equity - Equity(account, prices) < 100 * DailyLoss
              /\ FirstOfMonth(n) => marks[n].equity - Equity(account, prices) < 100 * MonthlyLoss
         /\ OpenCount(account)' <= MaxPositions
<1> DEFINE price == prices[i]
           qty == Sized(account.cash, prices[i], stopPct)
           equity == Equity(account, prices)
<1>1. /\ AccountInv /\ RiskInv /\ RiskTypes /\ account \in Account
      /\ prices \in [Instruments -> Nat \ {0}] /\ Len(marks) \in Nat /\ since \in 0 .. Len(marks)
      /\ marks \in Seq([day : 1 .. MaxDays, equity : Nat])
  BY MarkTypes DEF Inv, RiskInv, RiskTypes, AccountInv
<1>2. price \in Nat \ {0} /\ account.cash \in Nat
  BY <1>1 DEF Account
<1>3. qty \in Nat /\ Cost(qty, price) <= account.cash
  <2>1. stopPct \in Nat \ {0}
    BY PricesAssumption
  <2>. QED
    BY <1>2, <2>1, SizedFits
<1>4. ~UNCHANGED account
  BY DEF Bought, Known
<1>5. /\ account' = FillBuy(account, id, i, qty, price) /\ qty > 0
      /\ Approved(risk, equity, OpenCount(account))
  BY <1>4 DEF Buy, SubmitBuy
<1> HIDE DEF price, qty, equity
<1>6. /\ ~risk.kill /\ OpenCount(account) < MaxPositions
      /\ risk.day # 0 => risk.dayStart - equity < 100 * DailyLoss
      /\ risk.month # 0 => risk.monthStart - equity < 100 * MonthlyLoss
  BY <1>5 DEF Approved
<1>7. ASSUME NEW n \in since + 1 .. Len(marks), NEW m \in since .. Len(marks), 0 < m, m <= n
      PROVE  ~Breached(marks[m].equity, marks[n].equity)
  <2>1. m \in since .. n
    BY <1>1, <1>7
  <2>. QED
    BY <1>1, <1>6, <1>7, <2>1 DEF RiskInv, KillSwitchLatches
<1>8. ASSUME NEW n \in DOMAIN marks
      PROVE  /\ FirstOfDay(n) => marks[n].equity - equity < 100 * DailyLoss
             /\ FirstOfMonth(n) => marks[n].equity - equity < 100 * MonthlyLoss
  <2>1. n \in 1 .. Len(marks) /\ Len(marks) \in 1 .. Len(marks) /\ Len(marks) > 0
    BY <1>1
  <2>2. risk.day # 0 /\ risk.month # 0
    <3>1. marks[Len(marks)].day \in Nat \ {0}
      BY <1>1, <2>1, MarkTypes
    <3>2. risk.day \in Nat \ {0} /\ risk.month = MonthOf(risk.day)
      BY <1>1, <2>1, <3>1 DEF RiskInv, LastMark
    <3>. QED
      BY <3>2, MonthType
  <2>. QED
    BY <1>1, <1>6, <2>1, <2>2 DEF RiskInv, Baselines
<1>9. OpenCount(account)' <= MaxPositions
  <2>1. qty \in Nat \ {0}
    BY <1>3, <1>5
  <2>2. /\ account' \in Account
        /\ account'.orders = [account.orders EXCEPT ![id] = Made("BUY", i, qty, price, "FILLED")]
        /\ account'.cash = account.cash - Cost(qty, price)
        /\ account'.held = [account.held EXCEPT ![i] = @ + qty]
    BY <1>1, <1>2, <1>3, <1>5, <2>1, BuyFilled
  <2>3. /\ OpenCount(account) \in Nat /\ OpenCount(account') \in Nat
        /\ OpenCount(account') <= OpenCount(account) + 1
    BY <1>1, <2>1, <2>2, OneMoreOpen
  <2>4. OpenCount(account)' = OpenCount(account')
    BY DEF OpenCount
  <2>. QED
    BY <1>6, <2>3, <2>4, LimitsAssumption
<1>. QED
  BY <1>7, <1>8, <1>9 DEF equity

\* No entry against the charter's limits (evaluate_new_position, submit_buy).
THEOREM LimitsAreRespected == Spec => EntriesRespectLimits
<1>1. ASSUME Inv, [Next]_vars, Bought' # Bought
      PROVE  /\ \A n \in since + 1 .. Len(marks), m \in since .. Len(marks) :
                  0 < m /\ m <= n => ~Breached(marks[m].equity, marks[n].equity)
             /\ \A n \in DOMAIN marks :
                  /\ FirstOfDay(n) => marks[n].equity - Equity(account, prices) < 100 * DailyLoss
                  /\ FirstOfMonth(n) => marks[n].equity - Equity(account, prices) < 100 * MonthlyLoss
             /\ OpenCount(account)' <= MaxPositions
  <2>1. ~UNCHANGED account
    BY <1>1 DEF Bought, Known
  <2>2. PICK id \in Ids, i \in Instruments :
          \/ \E stopPct \in StopPcts : Buy(id, i, stopPct)
          \/ Sell(id, i, IF account.held[i] > 0 THEN account.held[i] ELSE 1)
    BY <1>1, <2>1 DEF Next, vars, Bar, Mark, ResetKillSwitch
  <2>3. CASE Sell(id, i, IF account.held[i] > 0 THEN account.held[i] ELSE 1)
    <3>1. account \in Account /\ RiskTypes
      BY <1>1 DEF Inv, AccountInv, RiskInv
    <3>2. prices \in [Instruments -> Nat \ {0}]
      BY <3>1, MarkTypes
    <3>3. PICK qty \in Nat \ {0} : qty = IF account.held[i] > 0 THEN account.held[i] ELSE 1
      <4>1. account.held[i] \in Nat
        BY <3>1 DEF Account
      <4>. QED
        BY <4>1
    <3>4. Sell(id, i, qty)
      BY <2>3, <3>3
    <3>. QED
      BY <1>1, <3>1, <3>2, <3>4, OnlyBuysAreBought
  <2>4. CASE \E stopPct \in StopPcts : Buy(id, i, stopPct)
    BY <1>1, <2>4, BoughtWithinLimits
  <2>. QED
    BY <2>2, <2>3, <2>4
<1>. QED
  BY <1>1, InductiveInvariant, PTL DEF Spec, EntriesRespectLimits
=============================================================================
