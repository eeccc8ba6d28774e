-------------------------- MODULE KiteBrokerProofs --------------------------
(***************************************************************************)
(* Theorems of KiteBroker, for every set of ids and quantities, every bound *)
(* on the book and both kinds of wire.  The three safety invariants are not *)
(* inductive: whether a new submission is safe depends on the store         *)
(* covering every row, on the call in progress having no row yet, and on    *)
(* there being no request left on a prompt wire.  IInv adds these facts.    *)
(* The same invariant carries the refinement of IdempotentOrders: each step *)
(* on a prompt wire is one step of the register, or a stutter.              *)
(***************************************************************************)
EXTENDS KiteBroker, SequenceTheorems, WellFoundedInduction, TLAPS

\* The store: the file is never ahead of the memory of a running process,
\* and what may reach the exchange was saved first.
StoreInv ==
  /\ up => \A id \in Ids : disk[id] # "absent" => entries[id] # "absent"
  /\ \A n \in DOMAIN book : disk[book[n].id] # "absent"
  /\ call # NoCall => disk[call.id] # "absent"
  /\ \A request \in stray : disk[request.id] # "absent"
  /\ \A id \in Ids : cache[id] # NoOrder => entries[id] # "absent"

\* The process: nothing of it survives a crash.
ProcessInv ==
  ~up => call = NoCall /\ cache = [id \in Ids |-> NoOrder]

\* The call's row is a row of its id.
CallInv ==
  call.stage = "accepted" => call.row \in RowsOf(call.id)

\* On a prompt wire an id being sent has no row, and no other request is out.
PromptInv ==
  wire = "prompt" =>
    /\ stray = {}
    /\ \A m, n \in DOMAIN book : book[m].id = book[n].id => m = n
    /\ call.stage = "sending" => RowsOf(call.id) = {}

\* An order the adapter may hold for an id: it points at a row of the id, is
\* not ahead of it, and when it is filled or rejected so is the row.
SoundOrder(id, order) ==
  /\ order.row \in RowsOf(id)
  /\ order.filled <= book[order.row].filled
  /\ order.status \in {"FILLED", "REJECTED"} =>
       /\ StatusOf(book[order.row].status) = order.status
       /\ book[order.row].filled = order.filled

ViewInv == \A id \in Ids : cache[id] # NoOrder => SoundOrder(id, cache[id])

IInv == TypeOK /\ StoreInv /\ ProcessInv /\ CallInv /\ PromptInv /\ ViewInv

-----------------------------------------------------------------------------
(* Lemmas *)

\* A non-empty set of naturals has a least element.
LEMMA LeastNat ==
  ASSUME NEW T, T \subseteq Nat, T # {}
  PROVE  \E x \in T : \A y \in T : x <= y
<1>1. \E x \in T : \A y \in T : ~(<<y, x>> \in OpToRel(<, Nat))
  BY NatLessThanWellFounded, WFMin
<1>2. \A x, y \in Nat : <<y, x>> \in OpToRel(<, Nat) <=> y < x
  BY DEF OpToRel
<1>3. PICK x \in T : \A y \in T : ~(<<y, x>> \in OpToRel(<, Nat))
  BY <1>1
<1>4. ASSUME NEW y \in T PROVE x <= y
  <2>1. x \in Nat /\ y \in Nat
    OBVIOUS
  <2>2. ~(y < x)
    BY <1>2, <1>3, <2>1
  <2>. QED
    BY <2>1, <2>2
<1>. QED
  BY <1>4

\* FirstRow and LastRow pick a row of the id whenever there is one.
LEMMA RowPicks ==
  ASSUME TypeOK, NEW id \in Ids, RowsOf(id) # {}
  PROVE  FirstRow(id) \in RowsOf(id) /\ LastRow(id) \in RowsOf(id)
<1>1. Len(book) \in Nat /\ RowsOf(id) \subseteq 1 .. Len(book)
  BY DEF TypeOK, RowsOf
<1>2. \E n \in RowsOf(id) : \A m \in RowsOf(id) : n <= m
  BY <1>1, LeastNat
<1>3. \E n \in RowsOf(id) : \A m \in RowsOf(id) : m <= n
  <2> DEFINE Behind == {Len(book) - n : n \in RowsOf(id)}
  <2>1. PICK x \in Behind : \A y \in Behind : x <= y
    <3>1. Behind \subseteq Nat /\ Behind # {}
      BY <1>1
    <3>. QED
      BY <3>1, LeastNat
  <2>2. PICK n \in RowsOf(id) : x = Len(book) - n
    OBVIOUS
  <2>3. ASSUME NEW m \in RowsOf(id) PROVE m <= n
    <3>1. Len(book) - m \in Behind
      OBVIOUS
    <3>2. Len(book) - n <= Len(book) - m
      BY <2>1, <2>2, <3>1
    <3>3. m \in Nat /\ n \in Nat
      BY <1>1
    <3>. QED
      BY <1>1, <3>2, <3>3
  <2>. QED
    BY <2>3
<1>. QED
  BY <1>2, <1>3 DEF FirstRow, LastRow

\* A row's state applied to a cached order of the same id gives an order.
LEMMA AppliedType ==
  ASSUME NEW order \in Order, NEW row \in Row
  PROVE  /\ Applied(order, row) \in Order
         /\ Applied(order, row) # NoOrder
         /\ Applied(order, row).row = order.row
         /\ Applied(order, row).status = StatusOf(row.status)
         /\ order.filled <= row.filled => Applied(order, row).filled = row.filled
<1>1. StatusOf(row.status) \in OrderStatus
  BY DEF StatusOf, OrderStatus, Row, RowStatus
<1>2. row.filled \in Nat /\ order.filled \in Nat
  BY DEF Row, Order
<1>3. /\ Applied(order, row).row = order.row
      /\ Applied(order, row).filled = IF row.filled > 0 THEN row.filled ELSE order.filled
      /\ Applied(order, row).status = StatusOf(row.status)
  BY DEF Applied, Order
<1>4. Applied(order, row) # NoOrder
  <2>1. order.row # 0 /\ NoOrder.row = 0
    BY DEF Order, NoOrder
  <2>. QED
    BY <1>3, <2>1
<1>5. Applied(order, row) \in Order
  BY <1>1, <1>2 DEF Applied, Order
<1>6. order.filled <= row.filled => Applied(order, row).filled = row.filled
  BY <1>2, <1>3
<1>7. /\ Applied(order, row).row = order.row
      /\ Applied(order, row).status = StatusOf(row.status)
  BY <1>3
<1>. QED
  BY <1>4, <1>5, <1>6, <1>7

LEMMA BuildOrderType ==
  ASSUME NEW n \in Nat \ {0}, NEW qty \in Quantities
  PROVE  /\ BuildOrder(n, qty) \in Order
         /\ BuildOrder(n, qty).row = n
         /\ BuildOrder(n, qty).filled = 0
         /\ BuildOrder(n, qty).status = "SUBMITTED"
BY DEF BuildOrder, Order, OrderStatus

\* The rows of a book, as typed records.
LEMMA SeqRows ==
  ASSUME NEW b \in Seq(Row)
  PROVE  /\ Len(b) \in Nat
         /\ DOMAIN b = 1 .. Len(b)
         /\ \A n \in DOMAIN b :
              /\ n \in Nat \ {0}
              /\ b[n] \in Row
              /\ b[n].id \in Ids
              /\ b[n].qty \in Quantities
              /\ b[n].filled \in Nat
<1>1. Len(b) \in Nat /\ DOMAIN b = 1 .. Len(b)
  OBVIOUS
<1>2. ASSUME NEW n \in DOMAIN b
      PROVE  n \in Nat \ {0} /\ b[n] \in Row
  BY <1>1
<1>. QED
  BY <1>1, <1>2 DEF Row

LEMMA BookRows ==
  ASSUME TypeOK
  PROVE  /\ Len(book) \in Nat
         /\ DOMAIN book = 1 .. Len(book)
         /\ \A n \in DOMAIN book :
              /\ n \in Nat \ {0}
              /\ book[n] \in Row
              /\ book[n].id \in Ids
              /\ book[n].qty \in Quantities
              /\ book[n].filled \in Nat
BY SeqRows DEF TypeOK

\* Rows are never removed or re-labelled, fills only grow, and a row that is
\* closed never changes.
RowsKept ==
  /\ DOMAIN book \subseteq DOMAIN book'
  /\ \A n \in DOMAIN book :
       /\ book'[n].id = book[n].id
       /\ book[n].filled <= book'[n].filled
       /\ book[n].status # "OPEN" => book'[n] = book[n]

RowUpdate(n) == Fill(n) \/ Reject(n) \/ CancelRow(n)

LEMMA RowUpdateStep ==
  ASSUME TypeOK, NEW n \in DOMAIN book, RowUpdate(n)
  PROVE  /\ book' \in Seq(Row)
         /\ DOMAIN book' = DOMAIN book
         /\ RowsKept
         /\ UNCHANGED <<up, hydrated, cache, entries, disk, call, wire, stray>>
<1>1. book[n] \in Row /\ book[n].status = "OPEN"
  BY BookRows DEF RowUpdate, Fill, Reject, CancelRow
<1>2. UNCHANGED <<up, hydrated, cache, entries, disk, call, wire, stray>>
  BY DEF RowUpdate, Fill, Reject, CancelRow, process
<1>3. PICK row \in Row : /\ book' = [book EXCEPT ![n] = row]
                         /\ row.id = book[n].id
                         /\ book[n].filled <= row.filled
  <2>1. CASE Fill(n)
    <3>1. PICK filled \in book[n].filled + 1 .. book[n].qty :
             book' = [book EXCEPT ![n].filled = filled,
                                  ![n].status = IF filled = book[n].qty
                                                THEN "COMPLETE" ELSE "OPEN"]
      BY <2>1 DEF Fill
    <3> DEFINE row == [book[n] EXCEPT !.filled = filled,
                                      !.status = IF filled = book[n].qty
                                                 THEN "COMPLETE" ELSE "OPEN"]
    <3>2. book[n].filled \in Nat /\ book[n].qty \in Nat
      BY <1>1, QuantitiesAssumption DEF Row
    <3>3. filled \in Nat /\ book[n].filled <= filled
      BY <3>2
    <3>4. row \in Row /\ row.id = book[n].id /\ row.filled = filled
      BY <1>1, <3>3 DEF Row, RowStatus
    <3>5. book' = [book EXCEPT ![n] = row]
      BY <3>1
    <3>. QED
      BY <3>3, <3>4, <3>5
  <2>2. CASE Reject(n)
    <3> DEFINE row == [book[n] EXCEPT !.status = "REJECTED"]
    <3>1. row \in Row /\ row.id = book[n].id /\ row.filled = book[n].filled
      BY <1>1 DEF Row, RowStatus
    <3>2. book' = [book EXCEPT ![n] = row] /\ book[n].filled <= book[n].filled
      BY <1>1, <2>2 DEF Reject, Row
    <3>. QED
      BY <3>1, <3>2
  <2>3. CASE CancelRow(n)
    <3> DEFINE row == [book[n] EXCEPT !.status = "CANCELLED"]
    <3>1. row \in Row /\ row.id = book[n].id /\ row.filled = book[n].filled
      BY <1>1 DEF Row, RowStatus
    <3>2. book' = [book EXCEPT ![n] = row] /\ book[n].filled <= book[n].filled
      BY <1>1, <2>3 DEF CancelRow, Row
    <3>. QED
      BY <3>1, <3>2
  <2>. QED
    BY <2>1, <2>2, <2>3 DEF RowUpdate
<1>4. book' \in Seq(Row) /\ DOMAIN book' = DOMAIN book
  <2>1. book \in Seq(Row) /\ n \in 1 .. Len(book)
    BY BookRows DEF TypeOK
  <2>2. book' \in Seq(Row) /\ Len(book') = Len(book)
    BY <1>3, <2>1, ExceptSeq
  <2>. QED
    BY <2>1, <2>2
<1>5. RowsKept
  <2>1. ASSUME NEW m \in DOMAIN book
        PROVE  /\ book'[m].id = book[m].id
               /\ book[m].filled <= book'[m].filled
               /\ book[m].status # "OPEN" => book'[m] = book[m]
    <3>1. CASE m = n
      BY <1>1, <1>3, <3>1
    <3>2. CASE m # n
      <4>1. book'[m] = book[m] /\ book[m].filled \in Nat
        BY <1>3, <3>2, BookRows
      <4>. QED
        BY <4>1
    <3>. QED
      BY <3>1, <3>2
  <2>. QED
    BY <1>4, <2>1 DEF RowsKept
<1>. QED
  BY <1>2, <1>4, <1>5

\* The exchange takes a request: one new, open, unfilled row at the end.
LEMMA AppendStep ==
  ASSUME TypeOK, NEW id \in Ids, NEW qty \in Quantities,
         book' = Append(book, NewRow(id, qty))
  PROVE  /\ book' \in Seq(Row)
         /\ RowsKept
         /\ DOMAIN book' = DOMAIN book \cup {Len(book) + 1}
         /\ Len(book) + 1 \notin DOMAIN book
         /\ book'[Len(book) + 1] = NewRow(id, qty)
         /\ \A n \in DOMAIN book : book'[n] = book[n]
<1>1. NewRow(id, qty) \in Row
  BY DEF NewRow, Row, RowStatus
<1>2. book \in Seq(Row) /\ Len(book) \in Nat /\ DOMAIN book = 1 .. Len(book)
  BY BookRows DEF TypeOK
<1>3. /\ book' \in Seq(Row)
      /\ Len(book') = Len(book) + 1
      /\ \A n \in 1 .. Len(book) : book'[n] = book[n]
      /\ book'[Len(book) + 1] = NewRow(id, qty)
  BY <1>1, <1>2, AppendProperties
<1>4. DOMAIN book' = 1 .. Len(book) + 1
  BY <1>3
<1>5. \A n \in DOMAIN book : book[n].filled <= book[n].filled
  BY BookRows
<1>6. RowsKept
  BY <1>2, <1>3, <1>4, <1>5 DEF RowsKept
<1>. QED
  BY <1>2, <1>3, <1>4, <1>6
-----------------------------------------------------------------------------
(* Sound orders *)

LEMMA SoundApplied ==
  ASSUME TypeOK, NEW id \in Ids, NEW order \in Order,
         order.row \in RowsOf(id), order.filled <= book[order.row].filled
  PROVE  SoundOrder(id, Applied(order, book[order.row]))
<1>1. book[order.row] \in Row /\ book[order.row].filled \in Nat
  BY BookRows DEF RowsOf
<1>2. /\ Applied(order, book[order.row]).row = order.row
      /\ Applied(order, book[order.row]).filled = book[order.row].filled
      /\ Applied(order, book[order.row]).status = StatusOf(book[order.row].status)
  BY <1>1, AppliedType
<1>. QED
  BY <1>1, <1>2 DEF SoundOrder

LEMMA SoundBuilt ==
  ASSUME TypeOK, NEW id \in Ids, NEW n \in RowsOf(id), NEW qty \in Quantities
  PROVE  /\ BuildOrder(n, qty) \in Order
         /\ BuildOrder(n, qty).row = n
         /\ BuildOrder(n, qty).filled <= book[n].filled
         /\ SoundOrder(id, BuildOrder(n, qty))
<1>1. n \in Nat \ {0} /\ book[n].filled \in Nat
  BY BookRows DEF RowsOf
<1>. QED
  BY <1>1, BuildOrderType DEF SoundOrder

\* The exchange only moves a row forward, which keeps the orders sound.
LEMMA SoundKept ==
  ASSUME TypeOK, RowsKept, book' \in Seq(Row), NEW id \in Ids, NEW order \in Order,
         SoundOrder(id, order)
  PROVE  SoundOrder(id, order)'
<1>1. /\ order.row \in DOMAIN book /\ order.row \in DOMAIN book'
      /\ book'[order.row].id = id
  BY DEF SoundOrder, RowsKept, RowsOf
<1>2. order.row \in RowsOf(id)'
  BY <1>1 DEF RowsOf
<1>3. order.filled <= book'[order.row].filled
  <2>1. order.filled \in Nat /\ book[order.row].filled \in Nat
    BY <1>1, BookRows DEF Order
  <2>2. book'[order.row].filled \in Nat
    BY <1>1, SeqRows
  <2>. QED
    BY <1>1, <2>1, <2>2 DEF SoundOrder, RowsKept
<1>4. ASSUME order.status \in {"FILLED", "REJECTED"}
      PROVE  book'[order.row] = book[order.row]
  <2>1. StatusOf("OPEN") = "SUBMITTED"
    BY DEF StatusOf
  <2>2. book[order.row].status # "OPEN"
    BY <1>4, <2>1 DEF SoundOrder
  <2>. QED
    BY <1>1, <2>2 DEF RowsKept
<1>. QED
  BY <1>2, <1>3, <1>4 DEF SoundOrder
-----------------------------------------------------------------------------
(* Each action keeps the inductive invariant *)

\* With the book unchanged, so is what is said of its rows.
LEMMA SameBook ==
  ASSUME book' = book
  PROVE  /\ \A id : RowsOf(id)' = RowsOf(id)
         /\ \A id, order : SoundOrder(id, order)' <=> SoundOrder(id, order)
BY DEF RowsOf, SoundOrder

\* A save of one entry: the file follows the memory, or stays.
LEMMA SaveStep ==
  ASSUME TypeOK, up, NEW id \in Ids, NEW stage \in Stage \ {"absent"},
         NEW saved \in BOOLEAN, Save([entries EXCEPT ![id] = stage], saved),
         \A i \in Ids : disk[i] # "absent" => entries[i] # "absent"
  PROVE  /\ entries' \in [Ids -> Stage] /\ disk' \in [Ids -> Stage]
         /\ \A i \in Ids : disk'[i] # "absent" => entries'[i] # "absent"
         /\ \A i \in Ids : disk[i] # "absent" => disk'[i] # "absent"
         /\ \A i \in Ids : entries[i] # "absent" => entries'[i] # "absent"
         /\ entries'[id] # "absent"
         /\ saved => disk'[id] # "absent"
<1>1. /\ entries \in [Ids -> Stage] /\ disk \in [Ids -> Stage]
      /\ entries' = [entries EXCEPT ![id] = stage]
      /\ disk' = IF saved THEN [entries EXCEPT ![id] = stage] ELSE disk
  BY DEF TypeOK, Save
<1>2. stage \in Stage /\ stage # "absent"
  OBVIOUS
<1>. QED
  BY <1>1, <1>2

LEMMA HydrateInv == IInv /\ Hydrate => IInv'
<1> SUFFICES ASSUME IInv, Hydrate PROVE IInv'
  OBVIOUS
<1> USE DEF IInv
<1>1. /\ up /\ call = NoCall /\ hydrated' = TRUE
      /\ UNCHANGED <<up, entries, disk, call, wire, stray, book>>
  BY DEF Hydrate, Idle
<1>2. ASSUME NEW id \in Ids
      PROVE  /\ cache'[id] \in Order \cup {NoOrder}
             /\ cache'[id] # NoOrder => SoundOrder(id, cache'[id])
             /\ cache'[id] # NoOrder => entries[id] # "absent"
  <2>1. CASE entries[id] # "absent" /\ RowsOf(id) # {}
    <3> DEFINE n == LastRow(id)
               built == BuildOrder(n, book[n].qty)
    <3>1. n \in RowsOf(id)
      BY <2>1, RowPicks
    <3>2. n \in DOMAIN book /\ book[n] \in Row /\ book[n].qty \in Quantities
      BY <3>1, BookRows DEF RowsOf
    <3>3. built \in Order /\ built.row = n /\ built.filled <= book[n].filled
      BY <3>1, <3>2, SoundBuilt
    <3>4. cache'[id] = Applied(built, book[n])
      BY <2>1 DEF Hydrate
    <3>5. Applied(built, book[n]) \in Order
      BY <3>2, <3>3, AppliedType
    <3>6. SoundOrder(id, Applied(built, book[built.row]))
      BY <3>1, <3>3, SoundApplied
    <3>. QED
      BY <2>1, <3>3, <3>4, <3>5, <3>6
  <2>2. CASE ~(entries[id] # "absent" /\ RowsOf(id) # {})
    <3>1. cache'[id] = cache[id]
      BY <2>2 DEF Hydrate
    <3>. QED
      BY <3>1 DEF TypeOK, ViewInv, StoreInv
  <2>. QED
    BY <2>1, <2>2
<1>3. cache' \in [Ids -> Order \cup {NoOrder}]
  BY <1>2 DEF Hydrate
<1>4. TypeOK'
  BY <1>1, <1>3 DEF TypeOK
<1>5. StoreInv'
  BY <1>1, <1>2 DEF StoreInv
<1>6. ProcessInv'
  BY <1>1 DEF ProcessInv
<1>7. CallInv' /\ PromptInv'
  BY <1>1, SameBook DEF CallInv, PromptInv
<1>8. ViewInv'
  BY <1>1, <1>2, SameBook DEF ViewInv
<1>. QED
  BY <1>4, <1>5, <1>6, <1>7, <1>8

LEMMA PlaceRecoveredInv ==
  ASSUME IInv, NEW id \in Ids, NEW qty \in Quantities, PlaceRecovered(id, qty)
  PROVE  IInv'
<1> USE DEF IInv
<1> DEFINE n == FirstRow(id)
           built == BuildOrder(n, qty)
<1>1. /\ up /\ call = NoCall /\ entries[id] # "absent" /\ RowsOf(id) # {}
      /\ cache' = [cache EXCEPT ![id] = Applied(built, book[n])]
      /\ UNCHANGED <<up, hydrated, entries, disk, call, wire, stray, book>>
  BY DEF PlaceRecovered, Idle
<1>2. n \in RowsOf(id)
  BY <1>1, RowPicks
<1>3. built \in Order /\ built.row = n /\ built.filled <= book[n].filled
  BY <1>2, SoundBuilt
<1>4. Applied(built, book[n]) \in Order
  BY <1>2, <1>3, AppliedType, BookRows DEF RowsOf
<1>5. SoundOrder(id, Applied(built, book[n]))
  BY <1>2, <1>3, SoundApplied
<1>6. TypeOK'
  BY <1>1, <1>4 DEF TypeOK
<1>7. StoreInv'
  BY <1>1 DEF StoreInv, TypeOK
<1>8. ProcessInv' /\ CallInv' /\ PromptInv'
  BY <1>1, SameBook DEF ProcessInv, CallInv, PromptInv
<1>9. ViewInv'
  BY <1>1, <1>5, SameBook DEF ViewInv, TypeOK
<1>. QED
  BY <1>6, <1>7, <1>8, <1>9
\* Before the request leaves, the attempt is on disk and - by the scan of the
\* book, or because an id without an entry has no row - the id has no row.
LEMMA PlaceNewInv ==
  ASSUME IInv, NEW id \in Ids, NEW qty \in Quantities, PlaceNew(id, qty)
  PROVE  IInv'
<1> USE DEF IInv
<1>1. /\ up /\ call = NoCall /\ cache[id] = NoOrder
      /\ entries[id] = "absent" \/ RowsOf(id) = {}
      /\ UNCHANGED <<up, hydrated, cache, wire, stray, book>>
  BY DEF PlaceNew, Idle
<1>2. PICK saved \in BOOLEAN :
        /\ Save([entries EXCEPT ![id] = "attempting"], saved)
        /\ call' = IF saved
                   THEN [stage |-> "sending", id |-> id, qty |-> qty, row |-> 0]
                   ELSE NoCall
  BY DEF PlaceNew
<1>3. /\ entries' \in [Ids -> Stage] /\ disk' \in [Ids -> Stage]
      /\ \A i \in Ids : disk'[i] # "absent" => entries'[i] # "absent"
      /\ \A i \in Ids : disk[i] # "absent" => disk'[i] # "absent"
      /\ \A i \in Ids : entries[i] # "absent" => entries'[i] # "absent"
      /\ saved => disk'[id] # "absent"
  <2>1. \A i \in Ids : disk[i] # "absent" => entries[i] # "absent"
    BY <1>1 DEF StoreInv
  <2>2. "attempting" \in Stage \ {"absent"}
    BY DEF Stage
  <2>. QED
    BY <1>1, <1>2, <2>1, <2>2, SaveStep
<1>4. RowsOf(id) = {}
  <2>1. ASSUME NEW n \in RowsOf(id) PROVE FALSE
    <3>1. n \in DOMAIN book /\ book[n].id = id
      BY DEF RowsOf
    <3>2. entries[id] # "absent"
      BY <1>1, <3>1 DEF StoreInv
    <3>. QED
      BY <1>1, <3>2
  <2>. QED
    BY <2>1
<1>5. call' # NoCall => call'.stage = "sending" /\ call'.id = id /\ saved
  BY <1>2 DEF NoCall
<1>6. call' \in Call \cup {NoCall}
  BY <1>2 DEF Call
<1>7. NoCall.stage = "idle"
  BY DEF NoCall
<1>8. TypeOK'
  BY <1>1, <1>3, <1>6 DEF TypeOK
<1>9. StoreInv'
  <2>1. \A n \in DOMAIN book : book[n].id \in Ids
    BY BookRows
  <2>2. \A request \in stray : request.id \in Ids
    BY DEF TypeOK, Request
  <2>3. \A n \in DOMAIN book : disk'[book[n].id] # "absent"
    BY <1>3, <2>1 DEF StoreInv
  <2>4. \A request \in stray : disk'[request.id] # "absent"
    BY <1>3, <2>2 DEF StoreInv
  <2>5. call' # NoCall => disk'[call'.id] # "absent"
    BY <1>3, <1>5
  <2>6. \A i \in Ids : cache[i] # NoOrder => entries'[i] # "absent"
    BY <1>3 DEF StoreInv
  <2>. QED
    BY <1>1, <1>3, <2>3, <2>4, <2>5, <2>6 DEF StoreInv
<1>10. ProcessInv'
  BY <1>1 DEF ProcessInv
<1>11. CallInv'
  BY <1>5, <1>7 DEF CallInv
<1>12. PromptInv'
  BY <1>1, <1>4, <1>5, <1>7, SameBook DEF PromptInv
<1>13. ViewInv'
  BY <1>1, SameBook DEF ViewInv
<1>. QED
  BY <1>8, <1>9, <1>10, <1>11, <1>12, <1>13

LEMMA PlaceReturnsInv == ASSUME IInv, PlaceReturns PROVE IInv'
<1> USE DEF IInv
<1>1. /\ up /\ call.stage = "accepted" /\ call' = NoCall
      /\ UNCHANGED <<up, hydrated, wire, stray, book>>
  BY DEF PlaceReturns
<1> DEFINE id == call.id
           built == BuildOrder(call.row, call.qty)
<1>2. PICK saved \in BOOLEAN :
        /\ Save([entries EXCEPT ![id] = "submitted"], saved)
        /\ cache' = IF saved THEN [cache EXCEPT ![id] = built] ELSE cache
  BY DEF PlaceReturns
<1>3. call \in Call /\ id \in Ids /\ call.qty \in Quantities
  <2>1. call # NoCall
    BY <1>1 DEF NoCall
  <2>. QED
    BY <2>1 DEF TypeOK, Call
<1>4. /\ entries' \in [Ids -> Stage] /\ disk' \in [Ids -> Stage]
      /\ \A i \in Ids : disk'[i] # "absent" => entries'[i] # "absent"
      /\ \A i \in Ids : disk[i] # "absent" => disk'[i] # "absent"
      /\ \A i \in Ids : entries[i] # "absent" => entries'[i] # "absent"
      /\ entries'[id] # "absent"
  <2>1. \A i \in Ids : disk[i] # "absent" => entries[i] # "absent"
    BY <1>1 DEF StoreInv
  <2>2. "submitted" \in Stage \ {"absent"}
    BY DEF Stage
  <2>. QED
    BY <1>1, <1>2, <1>3, <2>1, <2>2, SaveStep
<1>5. built \in Order /\ SoundOrder(id, built)
  <2>1. call.row \in RowsOf(id)
    BY <1>1 DEF CallInv
  <2>. QED
    BY <1>3, <2>1, SoundBuilt
<1>6. NoCall.stage = "idle"
  BY DEF NoCall
<1>7. cache' \in [Ids -> Order \cup {NoOrder}]
  BY <1>2, <1>3, <1>5 DEF TypeOK
<1>8. TypeOK'
  BY <1>1, <1>4, <1>7 DEF TypeOK
<1>9. StoreInv'
  <2>1. \A n \in DOMAIN book : book[n].id \in Ids
    BY BookRows
  <2>2. \A request \in stray : request.id \in Ids
    BY DEF TypeOK, Request
  <2>3. \A n \in DOMAIN book : disk'[book[n].id] # "absent"
    BY <1>4, <2>1 DEF StoreInv
  <2>4. \A request \in stray : disk'[request.id] # "absent"
    BY <1>4, <2>2 DEF StoreInv
  <2>5. \A i \in Ids : cache'[i] # NoOrder => entries'[i] # "absent"
    BY <1>2, <1>3, <1>4 DEF StoreInv, TypeOK
  <2>. QED
    BY <1>1, <1>4, <2>3, <2>4, <2>5 DEF StoreInv
<1>10. ProcessInv'
  BY <1>1 DEF ProcessInv
<1>11. CallInv' /\ PromptInv'
  BY <1>1, <1>6, SameBook DEF CallInv, PromptInv
<1>12. ViewInv'
  BY <1>1, <1>2, <1>3, <1>5, SameBook DEF ViewInv, TypeOK
<1>. QED
  BY <1>8, <1>9, <1>10, <1>11, <1>12

\* A request that outlives its call was saved like the call it came from.
LEMMA AbandonStep ==
  ASSUME IInv, Abandon
  PROVE  /\ stray' \subseteq Request
         /\ \A request \in stray' : disk[request.id] # "absent"
         /\ wire = "prompt" => stray' = {}
<1> USE DEF IInv
<1>1. CASE stray' = stray
  BY <1>1 DEF TypeOK, StoreInv, PromptInv
<1>2. CASE stray' # stray
  <2>1. /\ wire # "prompt" /\ call.stage = "sending"
        /\ stray' = stray \cup {[id |-> call.id, qty |-> call.qty]}
    BY <1>2 DEF Abandon
  <2>2. call # NoCall
    BY <2>1 DEF NoCall
  <2>3. [id |-> call.id, qty |-> call.qty] \in Request /\ disk[call.id] # "absent"
    BY <2>2 DEF TypeOK, Call, Request, StoreInv
  <2>. QED
    BY <2>1, <2>3 DEF TypeOK, StoreInv
<1>. QED
  BY <1>1, <1>2

LEMMA PlaceRaisesInv == ASSUME IInv, PlaceRaises PROVE IInv'
<1> USE DEF IInv
<1>1. /\ up /\ call' = NoCall
      /\ UNCHANGED <<up, hydrated, cache, entries, disk, wire, book>>
  BY DEF PlaceRaises
<1>2. /\ stray' \subseteq Request
      /\ \A request \in stray' : disk[request.id] # "absent"
      /\ wire = "prompt" => stray' = {}
  BY AbandonStep DEF PlaceRaises
<1>3. NoCall.stage = "idle"
  BY DEF NoCall
<1>4. TypeOK'
  BY <1>1, <1>2 DEF TypeOK
<1>5. StoreInv' /\ ProcessInv'
  BY <1>1, <1>2 DEF StoreInv, ProcessInv
<1>6. CallInv' /\ PromptInv'
  BY <1>1, <1>2, <1>3, SameBook DEF CallInv, PromptInv
<1>7. ViewInv'
  BY <1>1, SameBook DEF ViewInv
<1>. QED
  BY <1>4, <1>5, <1>6, <1>7

LEMMA CrashInv == ASSUME IInv, Crash PROVE IInv'
<1> USE DEF IInv
<1>1. /\ up' = FALSE /\ hydrated' = FALSE /\ call' = NoCall
      /\ cache' = [id \in Ids |-> NoOrder]
      /\ entries' = [id \in Ids |-> "absent"]
      /\ UNCHANGED <<disk, wire, book>>
  BY DEF Crash
<1>2. /\ stray' \subseteq Request
      /\ \A request \in stray' : disk[request.id] # "absent"
      /\ wire = "prompt" => stray' = {}
  BY AbandonStep DEF Crash
<1>3. NoCall.stage = "idle"
  BY DEF NoCall
<1>4. TypeOK'
  BY <1>1, <1>2 DEF TypeOK, Stage
<1>5. StoreInv' /\ ProcessInv'
  BY <1>1, <1>2 DEF StoreInv, ProcessInv
<1>6. CallInv' /\ PromptInv'
  BY <1>1, <1>2, <1>3, SameBook DEF CallInv, PromptInv
<1>7. ViewInv'
  BY <1>1 DEF ViewInv
<1>. QED
  BY <1>4, <1>5, <1>6, <1>7

LEMMA StartInv == ASSUME IInv, Start PROVE IInv'
<1> USE DEF IInv
<1>1. /\ ~up /\ up' = TRUE /\ entries' = disk
      /\ UNCHANGED <<hydrated, cache, disk, call, wire, stray, book>>
  BY DEF Start
<1>2. \A id \in Ids : cache'[id] = NoOrder
  BY <1>1 DEF ProcessInv
<1>3. TypeOK'
  BY <1>1 DEF TypeOK
<1>4. StoreInv' /\ ProcessInv'
  BY <1>1, <1>2 DEF StoreInv, ProcessInv
<1>5. CallInv' /\ PromptInv'
  BY <1>1, SameBook DEF CallInv, PromptInv
<1>6. ViewInv'
  BY <1>2 DEF ViewInv
<1>. QED
  BY <1>3, <1>4, <1>5, <1>6
\* Cancel and Refresh replace the cached order of one id by a sound one, and
\* may save the entry as terminal.
LEMMA CachedOrderStep ==
  ASSUME IInv, up, call = NoCall, NEW id \in Ids, NEW order \in Order,
         cache[id] # NoOrder, SoundOrder(id, order),
         cache' = [cache EXCEPT ![id] = order],
         UNCHANGED <<up, hydrated, call, wire, stray, book>>,
         \/ UNCHANGED <<entries, disk>>
         \/ \E saved \in BOOLEAN : Save([entries EXCEPT ![id] = "terminal"], saved)
  PROVE  IInv'
<1> USE DEF IInv
<1>1. /\ entries' \in [Ids -> Stage] /\ disk' \in [Ids -> Stage]
      /\ \A i \in Ids : disk'[i] # "absent" => entries'[i] # "absent"
      /\ \A i \in Ids : disk[i] # "absent" => disk'[i] # "absent"
      /\ \A i \in Ids : entries[i] # "absent" => entries'[i] # "absent"
  <2>1. \A i \in Ids : disk[i] # "absent" => entries[i] # "absent"
    BY DEF StoreInv
  <2>2. "terminal" \in Stage \ {"absent"}
    BY DEF Stage
  <2>3. CASE UNCHANGED <<entries, disk>>
    BY <2>1, <2>3 DEF TypeOK
  <2>4. CASE \E saved \in BOOLEAN : Save([entries EXCEPT ![id] = "terminal"], saved)
    BY <2>1, <2>2, <2>4, SaveStep
  <2>. QED
    BY <2>3, <2>4
<1>2. TypeOK'
  BY <1>1 DEF TypeOK
<1>3. StoreInv'
  <2>1. \A n \in DOMAIN book : book[n].id \in Ids
    BY BookRows
  <2>2. \A request \in stray : request.id \in Ids
    BY DEF TypeOK, Request
  <2>3. \A n \in DOMAIN book : disk'[book[n].id] # "absent"
    BY <1>1, <2>1 DEF StoreInv
  <2>4. \A request \in stray : disk'[request.id] # "absent"
    BY <1>1, <2>2 DEF StoreInv
  <2>5. \A i \in Ids : cache'[i] # NoOrder => entries'[i] # "absent"
    BY <1>1 DEF StoreInv, TypeOK
  <2>. QED
    BY <1>1, <2>3, <2>4, <2>5 DEF StoreInv
<1>4. ProcessInv' /\ CallInv' /\ PromptInv'
  BY SameBook DEF ProcessInv, CallInv, PromptInv
<1>5. ViewInv'
  BY SameBook DEF ViewInv, TypeOK
<1>. QED
  BY <1>2, <1>3, <1>4, <1>5

LEMMA CancelledOrder ==
  ASSUME NEW order \in Order
  PROVE  LET cancelled == [order EXCEPT !.status = "CANCELLED"]
         IN /\ cancelled \in Order
            /\ cancelled.row = order.row
            /\ cancelled.filled = order.filled
            /\ cancelled.status = "CANCELLED"
BY DEF Order, OrderStatus

LEMMA CancelInv == ASSUME IInv, NEW id \in Ids, Cancel(id) PROVE IInv'
<1>1. /\ up /\ call = NoCall /\ cache[id].status = "SUBMITTED"
      /\ cache' = [cache EXCEPT ![id].status = "CANCELLED"]
      /\ \E saved \in BOOLEAN : Save([entries EXCEPT ![id] = "terminal"], saved)
      /\ UNCHANGED <<up, hydrated, call, wire, stray, book>>
  BY DEF Cancel, Idle
<1>2. cache[id] # NoOrder
  <2>1. NoOrder.status = "NONE"
    BY DEF NoOrder
  <2>. QED
    BY <1>1, <2>1
<1>3. cache[id] \in Order
  BY <1>2 DEF IInv, TypeOK
<1>4. PICK order \in Order : /\ order = [cache[id] EXCEPT !.status = "CANCELLED"]
                             /\ order.row = cache[id].row
                             /\ order.filled = cache[id].filled
                             /\ order.status = "CANCELLED"
  BY <1>3, CancelledOrder
<1>5. cache' = [cache EXCEPT ![id] = order]
  BY <1>1, <1>4
<1>6. SoundOrder(id, order)
  BY <1>2, <1>4 DEF IInv, ViewInv, SoundOrder
<1>. QED
  BY <1>1, <1>2, <1>5, <1>6, CachedOrderStep

LEMMA RefreshInv == ASSUME IInv, NEW id \in Ids, Refresh(id) PROVE IInv'
<1> DEFINE order == Applied(cache[id], book[cache[id].row])
<1>1. /\ up /\ call = NoCall /\ cache[id] # NoOrder
      /\ cache' = [cache EXCEPT ![id] = order]
      /\ \/ UNCHANGED <<entries, disk>>
         \/ \E saved \in BOOLEAN : Save([entries EXCEPT ![id] = "terminal"], saved)
      /\ UNCHANGED <<up, hydrated, call, wire, stray, book>>
  BY DEF Refresh, Idle
<1>2. /\ cache[id] \in Order
      /\ cache[id].row \in RowsOf(id)
      /\ cache[id].filled <= book[cache[id].row].filled
  BY <1>1 DEF IInv, TypeOK, ViewInv, SoundOrder
<1>3. order \in Order
  BY <1>2, AppliedType, BookRows DEF IInv, RowsOf
<1>4. SoundOrder(id, order)
  BY <1>2, SoundApplied DEF IInv
<1>. QED
  BY <1>1, <1>3, <1>4, CachedOrderStep

\* The exchange keeps sound orders sound, and the call's row a row of its id.
LEMMA ExchangeKeeps ==
  ASSUME IInv, RowsKept, book' \in Seq(Row), UNCHANGED cache
  PROVE  /\ ViewInv'
         /\ \A id \in Ids : RowsOf(id) \subseteq RowsOf(id)'
<1>1. ASSUME NEW id \in Ids, cache[id] # NoOrder
      PROVE  SoundOrder(id, cache[id])'
  <2>1. PICK order \in Order : order = cache[id]
    BY <1>1 DEF IInv, TypeOK
  <2>2. SoundOrder(id, order)
    BY <1>1, <2>1 DEF IInv, ViewInv
  <2>3. SoundOrder(id, order)'
    BY <2>2, SoundKept DEF IInv
  <2>. QED
    BY <2>1, <2>3 DEF SoundOrder, RowsOf
<1>2. \A id \in Ids : RowsOf(id) \subseteq RowsOf(id)'
  BY DEF RowsKept, RowsOf
<1>3. ViewInv'
  BY <1>1 DEF ViewInv
<1>. QED
  BY <1>2, <1>3

\* The exchange takes a request for an id: on a prompt wire the id has no row.
LEMMA AcceptedInv ==
  ASSUME IInv, NEW id \in Ids, NEW qty \in Quantities,
         book' = Append(book, NewRow(id, qty)),
         disk[id] # "absent",
         wire = "prompt" => RowsOf(id) = {},
         UNCHANGED <<up, hydrated, cache, entries, disk, wire>>,
         stray' \subseteq stray,
         call' \in Call \cup {NoCall},
         call' # NoCall => call # NoCall /\ call'.id = call.id,
         ~up => call' = NoCall,
         call'.stage = "accepted" =>
           \/ call' = call
           \/ call'.id = id /\ call'.row = Len(book) + 1,
         call'.stage = "sending" => call' = call /\ wire # "prompt"
  PROVE  IInv'
<1> USE DEF IInv
<1>1. NewRow(id, qty).id = id
  BY DEF NewRow
<1>2. /\ book' \in Seq(Row) /\ RowsKept
      /\ DOMAIN book' = DOMAIN book \cup {Len(book) + 1}
      /\ book'[Len(book) + 1].id = id
      /\ \A n \in DOMAIN book : book'[n] = book[n]
  BY <1>1, AppendStep
<1>3. ViewInv' /\ \A i \in Ids : RowsOf(i) \subseteq RowsOf(i)'
  BY <1>2, ExchangeKeeps
<1>4. TypeOK'
  BY <1>2 DEF TypeOK
<1>5. StoreInv'
  BY <1>2 DEF StoreInv
<1>6. ProcessInv'
  BY DEF ProcessInv
<1>7. CallInv'
  <2>1. CASE call' = call
    BY <1>2, <2>1 DEF CallInv, RowsKept, RowsOf
  <2>2. CASE call'.id = id /\ call'.row = Len(book) + 1
    BY <1>2, <2>2 DEF CallInv, RowsOf
  <2>. QED
    BY <2>1, <2>2 DEF CallInv
<1>8. PromptInv'
  <2>1. ASSUME wire = "prompt", NEW m \in DOMAIN book', NEW n \in DOMAIN book',
               book'[m].id = book'[n].id
        PROVE  m = n
    <3>1. \A k \in DOMAIN book : book[k].id # id
      BY <2>1 DEF RowsOf
    <3>. QED
      BY <1>2, <2>1, <3>1 DEF PromptInv
  <2>. QED
    BY <2>1 DEF PromptInv
<1>. QED
  BY <1>3, <1>4, <1>5, <1>6, <1>7, <1>8

LEMMA AcceptedCall ==
  ASSUME NEW sent \in Call, NEW n \in Nat
  PROVE  LET accepted == [sent EXCEPT !.stage = "accepted", !.row = n]
         IN /\ accepted \in Call
            /\ accepted.id = sent.id
            /\ accepted.stage = "accepted"
            /\ accepted.row = n
BY DEF Call

LEMMA AcceptInv == ASSUME IInv, Accept PROVE IInv'
<1>1. /\ call.stage = "sending"
      /\ book' = Append(book, NewRow(call.id, call.qty))
      /\ call' = [call EXCEPT !.stage = "accepted", !.row = Len(book) + 1]
      /\ UNCHANGED <<up, hydrated, cache, entries, disk, wire, stray>>
  BY DEF Accept
<1>2. NoCall.stage = "idle"
  BY DEF NoCall
<1>3. call \in Call /\ call # NoCall
  BY <1>1, <1>2 DEF IInv, TypeOK
<1>4. call.id \in Ids /\ call.qty \in Quantities /\ Len(book) \in Nat
  BY <1>3, BookRows DEF Call, IInv
<1>5. /\ call' \in Call
      /\ call'.id = call.id
      /\ call'.stage = "accepted"
      /\ call'.row = Len(book) + 1
  <2>1. PICK n \in Nat : n = Len(book) + 1
    BY <1>4
  <2>2. PICK sent \in Call : sent = call
    BY <1>3
  <2>3. call' = [sent EXCEPT !.stage = "accepted", !.row = n]
    BY <1>1, <2>1, <2>2
  <2>4. call' \in Call /\ call'.id = sent.id /\ call'.stage = "accepted" /\ call'.row = n
    BY ONLY <2>3, AcceptedCall
  <2>. QED
    BY <2>1, <2>2, <2>4
<1>6. up
  BY <1>3 DEF IInv, ProcessInv
<1>7. disk[call.id] # "absent"
  BY <1>3 DEF IInv, StoreInv
<1>8. wire = "prompt" => RowsOf(call.id) = {}
  BY <1>1 DEF IInv, PromptInv
<1>. QED
  BY <1>1, <1>3, <1>4, <1>5, <1>6, <1>7, <1>8, AcceptedInv

LEMMA AcceptStrayInv ==
  ASSUME IInv, NEW request \in stray, AcceptStray(request) PROVE IInv'
<1>1. /\ book' = Append(book, NewRow(request.id, request.qty))
      /\ stray' \subseteq stray
      /\ UNCHANGED <<up, hydrated, cache, entries, disk, call, wire>>
  BY DEF AcceptStray, process
<1>2. request.id \in Ids /\ request.qty \in Quantities /\ wire # "prompt"
  BY DEF IInv, TypeOK, Request, PromptInv
<1>3. disk[request.id] # "absent"
  BY DEF IInv, StoreInv
<1>4. call' \in Call \cup {NoCall} /\ (~up => call' = NoCall)
  BY <1>1 DEF IInv, TypeOK, ProcessInv
<1>. QED
  BY <1>1, <1>2, <1>3, <1>4, AcceptedInv

LEMMA RowUpdateInv ==
  ASSUME IInv, NEW n \in DOMAIN book, RowUpdate(n) PROVE IInv'
<1> USE DEF IInv
<1>1. /\ book' \in Seq(Row) /\ DOMAIN book' = DOMAIN book /\ RowsKept
      /\ UNCHANGED <<up, hydrated, cache, entries, disk, call, wire, stray>>
  BY RowUpdateStep
<1>2. \A m \in DOMAIN book : book'[m].id = book[m].id
  BY <1>1 DEF RowsKept
<1>3. ViewInv'
  BY <1>1, ExchangeKeeps
<1>4. \A id : RowsOf(id)' = RowsOf(id)
  BY <1>1, <1>2 DEF RowsOf
<1>5. TypeOK'
  BY <1>1 DEF TypeOK
<1>6. StoreInv' /\ ProcessInv'
  BY <1>1, <1>2 DEF StoreInv, ProcessInv
<1>7. CallInv' /\ PromptInv'
  BY <1>1, <1>2, <1>4 DEF CallInv, PromptInv
<1>. QED
  BY <1>3, <1>5, <1>6, <1>7

-----------------------------------------------------------------------------
(* Theorems *)

\* IInv holds initially and every step of the adapter, of the exchange and of
\* the failures between them preserves it.
THEOREM InductiveInvariant == Spec => []IInv
<1>1. Init => IInv
  <2>. SUFFICES ASSUME Init PROVE IInv
    OBVIOUS
  <2>1. NoCall.stage = "idle" /\ "absent" \in Stage /\ <<>> \in Seq(Row)
    BY DEF NoCall, Stage
  <2>2. TypeOK
    BY <2>1 DEF Init, TypeOK
  <2>3. StoreInv /\ ProcessInv /\ CallInv /\ PromptInv /\ ViewInv
    BY <2>1 DEF Init, StoreInv, ProcessInv, CallInv, PromptInv, ViewInv
  <2>. QED
    BY <2>2, <2>3 DEF IInv
<1>2. IInv /\ [Next]_vars => IInv'
  <2>. SUFFICES ASSUME IInv, [Next]_vars PROVE IInv'
    OBVIOUS
  <2>1. ASSUME NEW id \in Ids, NEW qty \in Quantities,
               PlaceRecovered(id, qty) \/ PlaceNew(id, qty)
        PROVE  IInv'
    BY <2>1, PlaceRecoveredInv, PlaceNewInv
  <2>2. ASSUME NEW id \in Ids, Cancel(id) \/ Refresh(id)
        PROVE  IInv'
    BY <2>2, CancelInv, RefreshInv
  <2>3. CASE Hydrate \/ PlaceReturns \/ PlaceRaises \/ Crash \/ Start
    BY <2>3, HydrateInv, PlaceReturnsInv, PlaceRaisesInv, CrashInv, StartInv
  <2>4. CASE Accept
    BY <2>4, AcceptInv
  <2>5. ASSUME NEW request \in stray, AcceptStray(request)
        PROVE  IInv'
    BY <2>5, AcceptStrayInv
  <2>6. ASSUME NEW n \in DOMAIN book, Fill(n) \/ Reject(n) \/ CancelRow(n)
        PROVE  IInv'
    BY <2>6, RowUpdateInv DEF RowUpdate
  <2>7. CASE UNCHANGED vars
    <3>1. UNCHANGED <<up, hydrated, cache, entries, disk, call, wire, stray, book>>
      BY <2>7 DEF vars
    <3>. QED
      BY <3>1, SameBook DEF IInv, TypeOK, StoreInv, ProcessInv, CallInv, PromptInv, ViewInv
  <2>. QED
    BY <2>1, <2>2, <2>3, <2>4, <2>5, <2>6, <2>7 DEF Next, Adapter, Exchange
<1>. QED
  BY <1>1, <1>2, PTL DEF Spec

\* Every state of the adapter, its store, the wire and the exchange is of the
\* declared type: a status of the platform, never the broker's, enters the
\* cache, and only the store's three stages the file.
THEOREM TypeCorrect == Spec => []TypeOK
<1>1. IInv => TypeOK
  BY DEF IInv
<1>. QED
  BY <1>1, InductiveInvariant, PTL

\* place_order is idempotent across crashes, raised calls and failed saves,
\* when no request outlives its call.
THEOREM IdempotentPlacement == Spec => []AtMostOneOrder
<1>1. IInv => AtMostOneOrder
  BY DEF IInv, PromptInv, AtMostOneOrder
<1>. QED
  BY <1>1, InductiveInvariant, PTL

\* The store is written ahead of the exchange, on both kinds of wire.
THEOREM WriteAhead == Spec => []StoreCoversOrders
<1>1. IInv => StoreCoversOrders
  BY DEF IInv, StoreInv, StoreCoversOrders
<1>. QED
  BY <1>1, InductiveInvariant, PTL

\* What the adapter reports as filled or rejected is what the exchange holds.
THEOREM TrueFinalViews == Spec => []FinalViewIsTrue
<1>1. ASSUME IInv, NEW id \in Ids
      PROVE  LET order == cache[id]
             IN /\ order # NoOrder => order.row \in RowsOf(id)
                /\ order.status \in {"FILLED", "REJECTED"} =>
                     /\ StatusOf(book[order.row].status) = order.status
                     /\ book[order.row].filled = order.filled
  <2>1. NoOrder.status = "NONE"
    BY DEF NoOrder
  <2>2. CASE cache[id] = NoOrder
    BY <2>1, <2>2
  <2>3. CASE cache[id] # NoOrder
    BY <1>1, <2>3 DEF IInv, ViewInv, SoundOrder
  <2>. QED
    BY <2>2, <2>3
<1>2. IInv => FinalViewIsTrue
  BY <1>1 DEF FinalViewIsTrue
<1>. QED
  BY <1>2, InductiveInvariant, PTL

\* hydrate() misses no live order: with the store covering every row, each
\* open row of a prompt exchange is the order the startup report sees.
THEOREM CompleteHydration == Spec => HydrationIsComplete
<1>1. ASSUME IInv, Hydrate, wire = "prompt",
             NEW n \in DOMAIN book, book[n].status = "OPEN"
      PROVE  /\ cache'[book[n].id].row = n
             /\ cache'[book[n].id].status = "SUBMITTED"
             /\ cache'[book[n].id].filled = book[n].filled
             /\ ~ReportIsClean'
  <2>1. PICK row \in Row : row = book[n]
    BY <1>1, BookRows DEF IInv
  <2>2. PICK id \in Ids : id = book[n].id
    BY <1>1, BookRows DEF IInv
  <2>3. n \in RowsOf(id) /\ RowsOf(id) \subseteq {n}
    BY <1>1, <2>2 DEF IInv, PromptInv, RowsOf
  <2>4. LastRow(id) = n
    BY <1>1, <2>3, RowPicks DEF IInv
  <2>5. entries[id] # "absent"
    BY <1>1, <2>2 DEF IInv, StoreInv, Hydrate, Idle
  <2>6. PICK order \in Order : order = BuildOrder(n, book[n].qty)
    BY <1>1, BookRows, BuildOrderType DEF IInv
  <2>7. cache'[id] = Applied(order, row)
    BY <1>1, <2>1, <2>3, <2>4, <2>5, <2>6 DEF Hydrate
  <2>8. order.row = n /\ order.filled = 0 /\ row.filled \in Nat
    BY <1>1, <2>1, <2>6, BookRows, BuildOrderType DEF IInv
  <2>9. order.filled <= row.filled
    BY <2>8
  <2>10. /\ cache'[id].row = n
         /\ cache'[id].filled = row.filled
         /\ cache'[id].status = StatusOf(row.status)
    BY <2>7, <2>8, <2>9, AppliedType
  <2>11. StatusOf(row.status) = "SUBMITTED"
    BY <1>1, <2>1 DEF StatusOf
  <2>12. ~ReportIsClean'
    BY <2>2, <2>10, <2>11 DEF ReportIsClean
  <2>. QED
    BY <2>1, <2>2, <2>10, <2>11, <2>12
<1>2. IInv /\ [Next]_vars =>
        [Hydrate /\ wire = "prompt" =>
           \A n \in DOMAIN book : book[n].status = "OPEN" =>
             /\ cache'[book[n].id].row = n
             /\ cache'[book[n].id].status = "SUBMITTED"
             /\ cache'[book[n].id].filled = book[n].filled
             /\ ~ReportIsClean']_vars
  BY <1>1
<1>. QED
  BY <1>2, InductiveInvariant, PTL DEF Spec, HydrationIsComplete

-----------------------------------------------------------------------------
(* The refinement of IdempotentOrders *)

\* On a prompt wire a row is the only row of its id, and the id's order.
LEMMA OnlyRow ==
  ASSUME IInv, wire = "prompt", NEW id \in Ids, NEW n \in RowsOf(id)
  PROVE  /\ RowsOf(id) = {n}
         /\ FirstRow(id) = n
         /\ LastRow(id) = n
         /\ OrderOf(id) = [qty |-> book[n].qty, filled |-> book[n].filled,
                           status |-> book[n].status]
         /\ Orders[id] = OrderOf(id)
<1>1. RowsOf(id) = {n}
  BY DEF IInv, PromptInv, RowsOf
<1>2. FirstRow(id) = n /\ LastRow(id) = n
  BY <1>1, RowPicks DEF IInv
<1>3. OrderOf(id) = [qty |-> book[n].qty, filled |-> book[n].filled,
                     status |-> book[n].status]
  BY <1>1, <1>2 DEF OrderOf
<1>. QED
  BY <1>1, <1>2, <1>3 DEF Orders

\* An id is placed in the promise when the exchange has a row of it.
LEMMA PlacedRow ==
  ASSUME IInv, wire = "prompt", NEW id \in Ids
  PROVE  /\ RowsOf(id) # {} => Promise!Placed(id)
         /\ RowsOf(id) = {} => ~Promise!Placed(id)
<1>1. ASSUME NEW n \in RowsOf(id) PROVE Promise!Placed(id)
  <2>1. book[n].qty \in Quantities /\ 0 \notin Quantities
    BY <1>1, BookRows, QuantitiesAssumption DEF IInv, RowsOf
  <2>2. Orders[id].qty = book[n].qty
    BY <1>1, OnlyRow
  <2>3. Promise!Unplaced.qty = 0
    BY DEF Promise!Unplaced
  <2>. QED
    BY <2>1, <2>2, <2>3 DEF Promise!Placed
<1>2. RowsOf(id) = {} => ~Promise!Placed(id)
  BY DEF Orders, OrderOf, Promise!Placed, Promise!Unplaced
<1>. QED
  BY <1>1, <1>2

\* The book alone says what the orders are, the cache alone the views.
LEMMA SameOrders ==
  ASSUME book' = book PROVE Orders' = Orders
BY SameBook DEF Orders, OrderOf, FirstRow

LEMMA SameViews ==
  ASSUME cache' = cache PROVE Views' = Views
BY DEF Views, ViewOf

\* Orders read from their rows: some views follow the exchange.
LEMMA LearnStep ==
  ASSUME IInv, wire = "prompt", book' = book, NEW ids \in SUBSET Ids,
         \A id \in ids : \E n \in RowsOf(id) :
            /\ cache'[id].filled = book[n].filled
            /\ cache'[id].status = StatusOf(book[n].status),
         \A id \in Ids \ ids : cache'[id] = cache[id]
  PROVE  Promise!Next
<1>1. ids \in SUBSET {id \in Ids : Promise!Placed(id)}
  BY PlacedRow
<1>2. ASSUME NEW id \in ids PROVE ViewOf(id)' = Promise!Seen(id)
  <2>1. PICK n \in RowsOf(id) : /\ cache'[id].filled = book[n].filled
                                /\ cache'[id].status = StatusOf(book[n].status)
    OBVIOUS
  <2>2. Orders[id].filled = book[n].filled /\ Orders[id].status = book[n].status
    BY OnlyRow
  <2>3. book[n].status \in RowStatus
    BY BookRows DEF IInv, Row, RowsOf
  <2>4. StatusOf(book[n].status) =
          CASE book[n].status = "OPEN" -> "SUBMITTED"
            [] book[n].status = "COMPLETE" -> "FILLED"
            [] OTHER -> book[n].status
    BY <2>3 DEF StatusOf, RowStatus
  <2>. QED
    BY <2>1, <2>2, <2>4 DEF ViewOf, Promise!Seen
<1>3. Views' = [id \in Ids |-> IF id \in ids THEN Promise!Seen(id) ELSE Views[id]]
  <2>1. \A id \in Ids \ ids : ViewOf(id)' = Views[id]
    BY DEF ViewOf, Views
  <2>. QED
    BY <1>2, <2>1 DEF Views
<1>4. Orders' = Orders
  BY SameOrders
<1>5. Promise!Learn
  BY <1>1, <1>3, <1>4 DEF Promise!Learn
<1>. QED
  BY <1>5 DEF Promise!Next

LEMMA HydratePromise == ASSUME IInv, wire = "prompt", Hydrate PROVE Promise!Next
<1> DEFINE ids == {id \in Ids : entries[id] # "absent" /\ RowsOf(id) # {}}
<1>1. ASSUME NEW id \in ids
      PROVE  \E n \in RowsOf(id) : /\ cache'[id].filled = book[n].filled
                                   /\ cache'[id].status = StatusOf(book[n].status)
  <2>1. PICK n \in RowsOf(id) : n = LastRow(id)
    BY RowPicks DEF IInv
  <2>2. PICK row \in Row : row = book[n]
    BY BookRows DEF IInv, RowsOf
  <2>3. row.qty \in Quantities /\ row.filled \in Nat
    BY DEF Row
  <2>4. PICK order \in Order : order = BuildOrder(n, row.qty) /\ order.filled <= row.filled
    BY <2>2, <2>3, SoundBuilt DEF IInv
  <2>5. cache'[id] = Applied(order, row)
    BY <2>1, <2>2, <2>4 DEF Hydrate
  <2>. QED
    BY <2>2, <2>4, <2>5, AppliedType
<1>2. \A id \in Ids \ ids : cache'[id] = cache[id]
  BY DEF Hydrate
<1>3. book' = book
  BY DEF Hydrate
<1> HIDE DEF ids
<1>4. ids \in SUBSET Ids
  BY DEF ids
<1>. QED
  BY <1>1, <1>2, <1>3, <1>4, LearnStep

\* One order rebuilt or refreshed from a row of its id.
LEMMA LearnOne ==
  ASSUME IInv, wire = "prompt", book' = book, NEW id \in Ids,
         NEW order \in Order, order.row \in RowsOf(id),
         order.filled <= book[order.row].filled,
         cache' = [cache EXCEPT ![id] = Applied(order, book[order.row])]
  PROVE  Promise!Next
<1>1. PICK row \in Row : row = book[order.row]
  BY BookRows DEF IInv, RowsOf
<1>2. /\ cache'[id] = Applied(order, row)
      /\ \A i \in Ids \ {id} : cache'[i] = cache[i]
  BY <1>1 DEF IInv, TypeOK
<1>3. cache'[id].filled = row.filled /\ cache'[id].status = StatusOf(row.status)
  BY <1>1, <1>2, AppliedType
<1>4. {id} \in SUBSET Ids
  OBVIOUS
<1>5. \A i \in {id} : \E n \in RowsOf(i) :
         /\ cache'[i].filled = book[n].filled
         /\ cache'[i].status = StatusOf(book[n].status)
  BY <1>1, <1>3
<1>. QED
  BY <1>2, <1>4, <1>5, LearnStep

LEMMA PlaceRecoveredPromise ==
  ASSUME IInv, wire = "prompt", NEW id \in Ids, NEW qty \in Quantities,
         PlaceRecovered(id, qty)
  PROVE  Promise!Next
<1>1. PICK n \in RowsOf(id) : n = FirstRow(id)
  BY RowPicks DEF IInv, PlaceRecovered
<1>2. PICK order \in Order : /\ order = BuildOrder(n, qty)
                             /\ order.row = n
                             /\ order.filled <= book[n].filled
  BY SoundBuilt DEF IInv
<1>3. /\ cache' = [cache EXCEPT ![id] = Applied(order, book[n])]
      /\ book' = book
  BY <1>1, <1>2 DEF PlaceRecovered
<1>. QED
  BY <1>2, <1>3, LearnOne

LEMMA RefreshPromise ==
  ASSUME IInv, wire = "prompt", NEW id \in Ids, Refresh(id) PROVE Promise!Next
<1>1. cache[id] # NoOrder
  BY DEF Refresh
<1>2. PICK order \in Order : order = cache[id]
  BY <1>1 DEF IInv, TypeOK
<1>3. order.row \in RowsOf(id) /\ order.filled <= book[order.row].filled
  BY <1>1, <1>2 DEF IInv, ViewInv, SoundOrder
<1>4. /\ cache' = [cache EXCEPT ![id] = Applied(order, book[order.row])]
      /\ book' = book
  BY <1>2 DEF Refresh
<1>. QED
  BY <1>3, <1>4, LearnOne

\* The acknowledged order is the cached one, or the save failed and nothing
\* is seen of it.
LEMMA PlaceReturnsPromise ==
  ASSUME IInv, wire = "prompt", PlaceReturns
  PROVE  Promise!Next \/ UNCHANGED <<Orders, Views>>
<1>1. Orders' = Orders
  BY SameOrders DEF PlaceReturns
<1>2. CASE cache' = cache
  BY <1>1, <1>2, SameViews
<1>3. CASE cache' = [cache EXCEPT ![call.id] = BuildOrder(call.row, call.qty)]
  <2>1. call.row \in RowsOf(call.id) /\ call # NoCall
    BY DEF PlaceReturns, IInv, CallInv, NoCall
  <2>2. PICK id \in Ids : id = call.id
    BY <2>1 DEF IInv, TypeOK, Call
  <2>3. Promise!Placed(id)
    BY <2>1, <2>2, PlacedRow
  <2>4. /\ cache'[id].filled = 0 /\ cache'[id].status = "SUBMITTED"
        /\ \A i \in Ids \ {id} : cache'[i] = cache[i]
    BY <1>3, <2>2 DEF BuildOrder, IInv, TypeOK
  <2>5. Views' = [Views EXCEPT ![id] = [filled |-> 0, status |-> "SUBMITTED"]]
    BY <2>4 DEF Views, ViewOf
  <2>. QED
    BY <1>1, <2>3, <2>5 DEF Promise!Acknowledge, Promise!Next
<1>. QED
  BY <1>2, <1>3 DEF PlaceReturns

LEMMA CancelPromise ==
  ASSUME IInv, wire = "prompt", NEW id \in Ids, Cancel(id) PROVE Promise!Next
<1>1. /\ cache[id].status = "SUBMITTED"
      /\ book[cache[id].row].status = "OPEN"
      /\ cache' = [cache EXCEPT ![id].status = "CANCELLED"]
      /\ book' = book
  BY DEF Cancel
<1>2. cache[id] # NoOrder
  BY <1>1 DEF NoOrder
<1>3. cache[id].row \in RowsOf(id)
  BY <1>2 DEF IInv, ViewInv, SoundOrder
<1>4. Promise!Open(id)
  BY <1>1, <1>3, OnlyRow DEF Promise!Open
<1>5. Views[id] = [filled |-> cache[id].filled, status |-> "SUBMITTED"]
  BY <1>1 DEF Views, ViewOf
<1>6. PICK order \in Order : order = cache[id]
  BY <1>2 DEF IInv, TypeOK
<1>7. cache'[id].filled = order.filled /\ cache'[id].status = "CANCELLED"
  <2>1. cache'[id] = [order EXCEPT !.status = "CANCELLED"]
    BY <1>1, <1>6 DEF IInv, TypeOK
  <2>. QED
    BY <2>1, CancelledOrder
<1>8. \A i \in Ids \ {id} : cache'[i] = cache[i]
  BY <1>1 DEF IInv, TypeOK
<1>9. Views' = [Views EXCEPT ![id].status = "CANCELLED"]
  <2>1. ViewOf(id)' = [filled |-> order.filled, status |-> "CANCELLED"]
    BY <1>7 DEF ViewOf
  <2>2. [Views[id] EXCEPT !.status = "CANCELLED"] =
          [filled |-> order.filled, status |-> "CANCELLED"]
    BY <1>5, <1>6
  <2>3. \A i \in Ids \ {id} : ViewOf(i)' = ViewOf(i)
    BY <1>8 DEF ViewOf
  <2>4. Views' = [i \in Ids |-> IF i = id THEN [Views[id] EXCEPT !.status = "CANCELLED"]
                                ELSE ViewOf(i)]
    BY <2>1, <2>2, <2>3 DEF Views
  <2>. QED
    BY <2>4 DEF Views
<1>10. Orders' = Orders
  BY <1>1, SameOrders
<1>11. Views[id].status = "SUBMITTED"
  BY <1>5
<1>12. Promise!AskCancel(id)
  BY <1>4, <1>9, <1>10, <1>11 DEF Promise!AskCancel
<1>. QED
  BY <1>12 DEF Promise!Next

LEMMA CrashPromise ==
  ASSUME IInv, Crash PROVE Promise!Next
<1>1. Orders' = Orders
  BY SameOrders DEF Crash
<1>2. Views' = [id \in Ids |-> Promise!Unknown]
  BY DEF Crash, Views, ViewOf, NoOrder, Promise!Unknown
<1>. QED
  BY <1>1, <1>2 DEF Promise!Forget, Promise!Next

\* One order of the promise changes when one row of the book does.
LEMMA OneOrder ==
  ASSUME IInv, IInv', wire = "prompt", wire' = wire, NEW id \in Ids,
         \A i \in Ids \ {id} : /\ RowsOf(i)' = RowsOf(i)
                               /\ \A m \in RowsOf(i) : book'[m] = book[m],
         NEW n, n \in RowsOf(id)'
  PROVE  Orders' = [Orders EXCEPT ![id] =
                      [qty |-> book'[n].qty, filled |-> book'[n].filled,
                       status |-> book'[n].status]]
<1>1. ASSUME NEW i \in Ids \ {id} PROVE OrderOf(i)' = OrderOf(i)
  <2>1. CASE RowsOf(i) = {}
    BY <2>1 DEF OrderOf
  <2>2. ASSUME NEW m \in RowsOf(i) PROVE OrderOf(i)' = OrderOf(i)
    <3>1. RowsOf(i) = {m} /\ RowsOf(i)' = {m} /\ book'[m] = book[m]
      BY OnlyRow
    <3>2. FirstRow(i) = m
      BY OnlyRow
    <3>3. FirstRow(i)' = FirstRow(i)
      BY <3>1 DEF FirstRow
    <3>. QED
      BY <3>1, <3>2, <3>3 DEF OrderOf
  <2>. QED
    BY <2>1, <2>2
<1>2. OrderOf(id)' = [qty |-> book'[n].qty, filled |-> book'[n].filled,
                      status |-> book'[n].status]
  <2>1. RowsOf(id)' = {n}
    BY DEF IInv, PromptInv, RowsOf
  <2>2. FirstRow(id)' = n
    <3>1. n \in Nat
      BY SeqRows DEF IInv, TypeOK, RowsOf
    <3>. QED
      BY <2>1, <3>1 DEF FirstRow
  <2>. QED
    BY <2>1, <2>2 DEF OrderOf
<1>. QED
  BY <1>1, <1>2 DEF Orders

LEMMA AcceptPromise ==
  ASSUME IInv, IInv', wire = "prompt", Accept PROVE Promise!Next
<1>1. /\ call.stage = "sending"
      /\ book' = Append(book, NewRow(call.id, call.qty))
      /\ UNCHANGED <<cache, wire>>
  BY DEF Accept
<1>2. call \in Call
  BY <1>1 DEF IInv, TypeOK, NoCall
<1>3. PICK id \in Ids, qty \in Quantities : id = call.id /\ qty = call.qty
  BY <1>2 DEF Call
<1>4. RowsOf(id) = {}
  BY <1>1, <1>3 DEF IInv, PromptInv
<1> DEFINE n == Len(book) + 1
<1>5. /\ DOMAIN book' = DOMAIN book \cup {n} /\ n \notin DOMAIN book
      /\ book'[n] = NewRow(id, qty)
      /\ \A m \in DOMAIN book : book'[m] = book[m]
  BY <1>1, <1>3, AppendStep DEF IInv
<1> HIDE DEF n
<1>6. /\ book'[n].id = id /\ book'[n].qty = qty
      /\ book'[n].filled = 0 /\ book'[n].status = "OPEN"
  BY <1>5 DEF NewRow
<1>7. n \in RowsOf(id)'
  BY <1>5, <1>6 DEF RowsOf
<1>8. \A i \in Ids \ {id} : /\ RowsOf(i)' = RowsOf(i)
                            /\ \A m \in RowsOf(i) : book'[m] = book[m]
  BY <1>5, <1>6 DEF RowsOf
<1>9. Orders' = [Orders EXCEPT ![id] = [qty |-> qty, filled |-> 0, status |-> "OPEN"]]
  BY <1>1, <1>6, <1>7, <1>8, OneOrder
<1>10. ~Promise!Placed(id)
  BY <1>4, PlacedRow
<1>11. Views' = Views
  BY <1>1, SameViews
<1>. QED
  BY <1>9, <1>10, <1>11 DEF Promise!Place, Promise!Next

LEMMA RowUpdatePromise ==
  ASSUME IInv, IInv', wire = "prompt", NEW n \in DOMAIN book, RowUpdate(n)
  PROVE  Promise!Next
<1>1. PICK id \in Ids, row \in Row : id = book[n].id /\ row = book[n]
  BY BookRows DEF IInv
<1>2. /\ DOMAIN book' = DOMAIN book
      /\ RowsKept /\ UNCHANGED cache /\ UNCHANGED wire
  BY RowUpdateStep DEF IInv, RowUpdate, Fill, Reject, CancelRow
<1>3. n \in RowsOf(id) /\ n \in RowsOf(id)'
  BY <1>1, <1>2 DEF RowsKept, RowsOf
<1>4. /\ Orders[id] = [qty |-> row.qty, filled |-> row.filled, status |-> row.status]
      /\ row.status = "OPEN"
  <2>1. Orders[id] = [qty |-> row.qty, filled |-> row.filled, status |-> row.status]
    BY <1>1, <1>3, OnlyRow
  <2>. QED
    BY <1>1, <2>1 DEF RowUpdate, Fill, Reject, CancelRow
<1>5. \A m \in DOMAIN book \ {n} : book'[m] = book[m]
  BY DEF RowUpdate, Fill, Reject, CancelRow
<1>6. \A i \in Ids \ {id} : /\ RowsOf(i)' = RowsOf(i)
                            /\ \A m \in RowsOf(i) : book'[m] = book[m]
  BY <1>1, <1>2, <1>5 DEF RowsKept, RowsOf
<1>7. Orders' = [Orders EXCEPT ![id] =
                   [qty |-> book'[n].qty, filled |-> book'[n].filled,
                    status |-> book'[n].status]]
  BY <1>2, <1>3, <1>6, OneOrder
<1>8. Views' = Views
  BY <1>2, SameViews
<1>9. Promise!Open(id)
  BY <1>4 DEF Promise!Open
<1>10. CASE Fill(n)
  <2>1. PICK filled \in row.filled + 1 .. row.qty :
           book' = [book EXCEPT ![n].filled = filled,
                                ![n].status = IF filled = row.qty
                                              THEN "COMPLETE" ELSE "OPEN"]
    BY <1>1, <1>10 DEF Fill
  <2>2. book'[n] = [row EXCEPT !.filled = filled,
                               !.status = IF filled = row.qty
                                          THEN "COMPLETE" ELSE "OPEN"]
    BY <1>1, <2>1
  <2>3. /\ book'[n].qty = row.qty /\ book'[n].filled = filled
        /\ book'[n].status = IF filled = row.qty THEN "COMPLETE" ELSE "OPEN"
    BY <2>2 DEF Row
  <2>4. Orders[id].filled = row.filled /\ Orders[id].qty = row.qty
    BY <1>4
  <2>5. Orders' = [Orders EXCEPT ![id] =
                     [qty |-> Orders[id].qty, filled |-> filled,
                      status |-> IF filled = Orders[id].qty THEN "COMPLETE" ELSE "OPEN"]]
    BY <1>7, <2>3, <2>4
  <2>6. Promise!Progress(id)
    BY <1>8, <1>9, <2>1, <2>4, <2>5 DEF Promise!Progress
  <2>. QED
    BY <2>6 DEF Promise!Next
<1>11. CASE Reject(n)
  <2>1. book'[n] = [row EXCEPT !.status = "REJECTED"] /\ row.filled = 0
    BY <1>1, <1>11 DEF Reject
  <2>2. /\ book'[n].qty = row.qty /\ book'[n].filled = row.filled
        /\ book'[n].status = "REJECTED"
    BY <2>1 DEF Row
  <2>3. /\ Orders' = [Orders EXCEPT ![id] = [Orders[id] EXCEPT !.status = "REJECTED"]]
        /\ Orders[id].filled = 0
    <3>1. [Orders[id] EXCEPT !.status = "REJECTED"] =
            [qty |-> row.qty, filled |-> row.filled, status |-> "REJECTED"]
      BY <1>4
    <3>. QED
      BY <1>4, <1>7, <2>1, <2>2, <3>1
  <2>. QED
    BY <1>8, <1>9, <2>3 DEF Promise!Close, Promise!Next
<1>12. CASE CancelRow(n)
  <2>1. book'[n] = [row EXCEPT !.status = "CANCELLED"]
    BY <1>1, <1>12 DEF CancelRow
  <2>2. /\ book'[n].qty = row.qty /\ book'[n].filled = row.filled
        /\ book'[n].status = "CANCELLED"
    BY <2>1 DEF Row
  <2>3. Orders' = [Orders EXCEPT ![id] = [Orders[id] EXCEPT !.status = "CANCELLED"]]
    <3>1. [Orders[id] EXCEPT !.status = "CANCELLED"] =
            [qty |-> row.qty, filled |-> row.filled, status |-> "CANCELLED"]
      BY <1>4
    <3>. QED
      BY <1>7, <2>2, <3>1
  <2>. QED
    BY <1>8, <1>9, <2>3 DEF Promise!Close, Promise!Next
<1>. QED
  BY <1>10, <1>11, <1>12 DEF RowUpdate

\* The adapter, its store and the exchange of a prompt wire implement the
\* idempotent order register.
THEOREM Refinement == Spec => KeepsPromise
<1>1. Init => Promise!Init
  <2>. SUFFICES ASSUME Init PROVE Promise!Init
    OBVIOUS
  <2>0. book = <<>> /\ Len(<<>>) = 0 /\ <<>> \in Seq(Row)
    BY DEF Init
  <2>1. \A id \in Ids : RowsOf(id) = {}
    BY <2>0 DEF RowsOf
  <2>2. Orders = [id \in Ids |-> Promise!Unplaced]
    BY <2>1 DEF Orders, OrderOf, Promise!Unplaced
  <2>3. Views = [id \in Ids |-> Promise!Unknown]
    BY DEF Init, Views, ViewOf, NoOrder, Promise!Unknown
  <2>. QED
    BY <2>2, <2>3 DEF Promise!Init
<1>2. IInv /\ IInv' /\ [Next]_vars => [wire = "prompt" => Promise!Next]_<<Promise!vars>>
  <2>. SUFFICES ASSUME IInv, IInv', [Next]_vars, wire = "prompt"
                PROVE  Promise!Next \/ UNCHANGED <<Orders, Views>>
    BY DEF Promise!vars
  <2>1. ASSUME UNCHANGED <<cache, book>> PROVE UNCHANGED <<Orders, Views>>
    BY <2>1, SameOrders, SameViews
  <2>2. CASE Hydrate \/ PlaceReturns \/ Crash
    BY <2>2, HydratePromise, PlaceReturnsPromise, CrashPromise
  <2>3. ASSUME NEW id \in Ids, NEW qty \in Quantities, PlaceRecovered(id, qty)
        PROVE  Promise!Next
    BY <2>3, PlaceRecoveredPromise
  <2>4. ASSUME NEW id \in Ids, Cancel(id) \/ Refresh(id) PROVE Promise!Next
    BY <2>4, CancelPromise, RefreshPromise
  <2>5. CASE \/ \E id \in Ids, qty \in Quantities : PlaceNew(id, qty)
             \/ PlaceRaises
             \/ Start
             \/ UNCHANGED vars
    BY <2>1, <2>5 DEF PlaceNew, PlaceRaises, Start, vars
  <2>6. CASE Accept
    BY <2>6, AcceptPromise
  <2>7. ASSUME NEW request \in stray, AcceptStray(request) PROVE FALSE
    BY <2>7 DEF IInv, PromptInv
  <2>8. ASSUME NEW n \in DOMAIN book, Fill(n) \/ Reject(n) \/ CancelRow(n)
        PROVE  Promise!Next
    BY <2>8, RowUpdatePromise DEF RowUpdate
  <2>. QED
    BY <2>2, <2>3, <2>4, <2>5, <2>6, <2>7, <2>8 DEF Next, Adapter, Exchange
<1>. QED
  BY <1>1, <1>2, InductiveInvariant, PTL DEF Spec, KeepsPromise
=============================================================================
