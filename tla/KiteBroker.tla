----------------------------- MODULE KiteBroker -----------------------------
(***************************************************************************)
(* The Zerodha adapter (execution/kite_broker.py) with its on-disk          *)
(* OrderStore (execution/order_store.py), the exchange order book it talks  *)
(* to, and the failures between them: the process crashes and restarts, a   *)
(* call to the client raises before or after the exchange took the order,   *)
(* a save of the store fails, and - on a late wire - a request whose call    *)
(* already raised still reaches the exchange.                               *)
(*                                                                         *)
(* One process drives the adapter, one call at a time.  A client order id   *)
(* and the tag derived from it are the same value here: derive_tag is a     *)
(* hash prefix, one tag per id.  Rows of other applications carry tags      *)
(* outside Ids and change nothing in the adapter, so the book omits them.   *)
(***************************************************************************)
EXTENDS Naturals, Sequences

CONSTANTS
  Ids,           \* client order ids
  Quantities,    \* the quantities a caller may ask for
  MaxRows        \* bound: rows the exchange accepts in a behaviour

ASSUME QuantitiesAssumption == Quantities \subseteq (Nat \ {0})
ASSUME MaxRowsAssumption == MaxRows \in Nat

VARIABLES
  up,        \* the process runs
  hydrated,  \* hydrate() has completed since the process started
  cache,     \* _orders: the in-memory order of each id
  entries,   \* OrderStore._entries: the stage of each id, in memory
  disk,      \* the store's JSON file
  call,      \* the place_order call in progress
  wire,      \* "prompt": no request outlives its call; "late": it may
  stray,     \* requests on the wire whose call has raised or died
  book       \* the exchange's order book, oldest row first

process == <<up, hydrated, cache, entries, disk, call>>
vars == <<up, hydrated, cache, entries, disk, call, wire, stray, book>>

-----------------------------------------------------------------------------
(* Types *)

Stage == {"absent", "attempting", "submitted", "terminal"}
Request == [id : Ids, qty : Quantities]
RowStatus == {"OPEN", "COMPLETE", "REJECTED", "CANCELLED"}
Row == [id : Ids, qty : Quantities, filled : Nat, status : RowStatus]

OrderStatus == {"SUBMITTED", "FILLED", "REJECTED", "CANCELLED"}
\* row is the broker_order_id: the order's place in the book.
Order == [row : Nat \ {0}, qty : Quantities, filled : Nat, status : OrderStatus]
NoOrder == [row |-> 0, qty |-> 0, filled |-> 0, status |-> "NONE"]

\* "sending": client.place_order was called and has not returned;
\* "accepted": the exchange has the order, its id is on the way back.
Call == [stage : {"sending", "accepted"}, id : Ids, qty : Quantities, row : Nat]
NoCall == [stage |-> "idle"]

TypeOK ==
  /\ up \in BOOLEAN
  /\ hydrated \in BOOLEAN
  /\ cache \in [Ids -> Order \cup {NoOrder}]
  /\ entries \in [Ids -> Stage]
  /\ disk \in [Ids -> Stage]
  /\ call \in Call \cup {NoCall}
  /\ wire \in {"prompt", "late"}
  /\ stray \subseteq Request
  /\ book \in Seq(Row)

-----------------------------------------------------------------------------
(* The adapter's view of a row *)

IsTerminal(status) == status \in {"FILLED", "REJECTED", "CANCELLED"}

\* Broken variant: the broker's status is passed through unmapped.
StatusOf_Raw(status) == status

\* _STATUS_MAP: a row that is not finished counts as SUBMITTED.
StatusOf(status) ==
  IF status = "COMPLETE" THEN "FILLED"
  ELSE IF status \in {"REJECTED", "CANCELLED"} THEN status
  ELSE "SUBMITTED"

\* Broken variant: a fill is recorded once and never updated.
Applied_FirstFillOnly(order, row) ==
  [order EXCEPT !.status = StatusOf(row.status),
                !.filled = IF row.filled > 0 /\ @ = 0 THEN row.filled ELSE @]

\* _apply_broker_state: the status always follows the row, the fills only
\* when the row reports some.
Applied(order, row) ==
  [order EXCEPT !.status = StatusOf(row.status),
                !.filled = IF row.filled > 0 THEN row.filled ELSE @]

BuildOrder(n, qty) == [row |-> n, qty |-> qty, filled |-> 0, status |-> "SUBMITTED"]

RowsOf(id) == {n \in DOMAIN book : book[n].id = id}
FirstRow(id) == CHOOSE n \in RowsOf(id) : \A m \in RowsOf(id) : n <= m
LastRow(id) == CHOOSE n \in RowsOf(id) : \A m \in RowsOf(id) : m <= n

\* OrderManager.reconcile and reconcile_startup_state: no non-terminal order.
ReportIsClean == \A id \in Ids : cache[id].status # "SUBMITTED"

\* _save rewrites the whole file and replaces it atomically, or raises and
\* leaves the old file.
Save(table, saved) ==
  /\ entries' = table
  /\ disk' = IF saved THEN table ELSE disk

Idle == up /\ call = NoCall

-----------------------------------------------------------------------------
(* The adapter *)

Init ==
  /\ up = TRUE
  /\ hydrated = FALSE
  /\ cache = [id \in Ids |-> NoOrder]
  /\ entries = [id \in Ids |-> "absent"]
  /\ disk = [id \in Ids |-> "absent"]
  /\ call = NoCall
  /\ wire \in {"prompt", "late"}
  /\ stray = {}
  /\ book = <<>>

\* Broken variant: only entries whose submission was confirmed are looked up.
Hydrate_ConfirmedOnly ==
  /\ Idle
  /\ cache' = [id \in Ids |->
                 IF entries[id] = "submitted" /\ RowsOf(id) # {}
                 THEN LET n == LastRow(id)
                      IN Applied(BuildOrder(n, book[n].qty), book[n])
                 ELSE cache[id]]
  /\ hydrated' = TRUE
  /\ UNCHANGED <<up, entries, disk, call, wire, stray, book>>

\* The dict comprehension keeps the last row of a tag; the order's quantity
\* is the row's.
Hydrate ==
  /\ Idle
  /\ cache' = [id \in Ids |->
                 IF entries[id] # "absent" /\ RowsOf(id) # {}
                 THEN LET n == LastRow(id)
                      IN Applied(BuildOrder(n, book[n].qty), book[n])
                 ELSE cache[id]]
  /\ hydrated' = TRUE
  /\ UNCHANGED <<up, entries, disk, call, wire, stray, book>>

\* place_order finds an entry and the order book has a row with its tag: the
\* order is rebuilt from the first such row and the request of this call.
PlaceRecovered(id, qty) ==
  /\ Idle
  /\ cache[id] = NoOrder
  /\ entries[id] # "absent"
  /\ RowsOf(id) # {}
  /\ LET n == FirstRow(id)
     IN cache' = [cache EXCEPT ![id] = Applied(BuildOrder(n, qty), book[n])]
  /\ UNCHANGED <<up, hydrated, entries, disk, call, wire, stray, book>>

\* Broken variant: a retry does not look at the order book.
PlaceNew_NoScan(id, qty) ==
  /\ Idle
  /\ cache[id] = NoOrder
  /\ Save([entries EXCEPT ![id] = "attempting"], TRUE)
  /\ call' = [stage |-> "sending", id |-> id, qty |-> qty, row |-> 0]
  /\ UNCHANGED <<up, hydrated, cache, wire, stray, book>>

\* Broken variant: the client is called although the save raised.
PlaceNew_UnsavedAttempt(id, qty) ==
  /\ Idle
  /\ cache[id] = NoOrder
  /\ entries[id] = "absent" \/ RowsOf(id) = {}
  /\ \E saved \in BOOLEAN : Save([entries EXCEPT ![id] = "attempting"], saved)
  /\ call' = [stage |-> "sending", id |-> id, qty |-> qty, row |-> 0]
  /\ UNCHANGED <<up, hydrated, cache, wire, stray, book>>

\* place_order finds no entry, or an entry and no row: it persists the
\* attempt, then calls the client.  When the save raises, no call is made.
PlaceNew(id, qty) ==
  /\ Idle
  /\ cache[id] = NoOrder
  /\ entries[id] = "absent" \/ RowsOf(id) = {}
  /\ \E saved \in BOOLEAN :
       /\ Save([entries EXCEPT ![id] = "attempting"], saved)
       /\ call' = IF saved
                  THEN [stage |-> "sending", id |-> id, qty |-> qty, row |-> 0]
                  ELSE NoCall
  /\ UNCHANGED <<up, hydrated, cache, wire, stray, book>>

\* The client returned the broker order id: mark_submitted, then the order
\* enters the cache.  When the save raises the order is not cached.
PlaceReturns ==
  /\ up
  /\ call.stage = "accepted"
  /\ \E saved \in BOOLEAN :
       /\ Save([entries EXCEPT ![call.id] = "submitted"], saved)
       /\ cache' = IF saved
                   THEN [cache EXCEPT ![call.id] = BuildOrder(call.row, call.qty)]
                   ELSE cache
  /\ call' = NoCall
  /\ UNCHANGED <<up, hydrated, wire, stray, book>>

\* A request nobody waits for any more is lost, or stays on the wire.
Abandon ==
  stray' \in IF wire = "late" /\ call.stage = "sending"
             THEN {stray, stray \cup {[id |-> call.id, qty |-> call.qty]}}
             ELSE {stray}

\* client.place_order raises: the caller cannot tell whether the exchange
\* took the order.  The entry stays "attempting".
PlaceRaises ==
  /\ up
  /\ call.stage \in {"sending", "accepted"}
  /\ Abandon
  /\ call' = NoCall
  /\ UNCHANGED <<up, hydrated, cache, entries, disk, wire, book>>

\* Broken variant: the order is marked cancelled although the client raised.
Cancel_AnyRow(id) ==
  /\ Idle
  /\ cache[id].status = "SUBMITTED"
  /\ cache' = [cache EXCEPT ![id].status = "CANCELLED"]
  /\ \E saved \in BOOLEAN : Save([entries EXCEPT ![id] = "terminal"], saved)
  /\ UNCHANGED <<up, hydrated, call, wire, stray, book>>

\* cancel_order of an order held as non-terminal.  The client accepts a
\* cancellation of an open row and raises for any other; a cancellation the
\* client accepted is still raced by fills.
Cancel(id) ==
  /\ Idle
  /\ cache[id].status = "SUBMITTED"
  /\ book[cache[id].row].status = "OPEN"
  /\ cache' = [cache EXCEPT ![id].status = "CANCELLED"]
  /\ \E saved \in BOOLEAN : Save([entries EXCEPT ![id] = "terminal"], saved)
  /\ UNCHANGED <<up, hydrated, call, wire, stray, book>>

Refresh(id) ==
  /\ Idle
  /\ cache[id] # NoOrder
  /\ LET order == Applied(cache[id], book[cache[id].row])
     IN /\ cache' = [cache EXCEPT ![id] = order]
        /\ IF IsTerminal(order.status)
           THEN \E saved \in BOOLEAN : Save([entries EXCEPT ![id] = "terminal"], saved)
           ELSE UNCHANGED <<entries, disk>>
  /\ UNCHANGED <<up, hydrated, call, wire, stray, book>>

Crash ==
  /\ up
  /\ Abandon
  /\ up' = FALSE
  /\ hydrated' = FALSE
  /\ cache' = [id \in Ids |-> NoOrder]
  /\ entries' = [id \in Ids |-> "absent"]
  /\ call' = NoCall
  /\ UNCHANGED <<disk, wire, book>>

\* A new process: OrderStore._load reads the file, the cache is empty.
Start ==
  /\ ~up
  /\ up' = TRUE
  /\ entries' = disk
  /\ UNCHANGED <<hydrated, cache, disk, call, wire, stray, book>>

-----------------------------------------------------------------------------
(* The exchange *)

NewRow(id, qty) == [id |-> id, qty |-> qty, filled |-> 0, status |-> "OPEN"]

Accept ==
  /\ call.stage = "sending"
  /\ Len(book) < MaxRows
  /\ book' = Append(book, NewRow(call.id, call.qty))
  /\ call' = [call EXCEPT !.stage = "accepted", !.row = Len(book) + 1]
  /\ UNCHANGED <<up, hydrated, cache, entries, disk, wire, stray>>

AcceptStray(request) ==
  /\ Len(book) < MaxRows
  /\ book' = Append(book, NewRow(request.id, request.qty))
  /\ stray' = stray \ {request}
  /\ UNCHANGED <<process, wire>>

Fill(n) ==
  /\ book[n].status = "OPEN"
  /\ \E filled \in book[n].filled + 1 .. book[n].qty :
       book' = [book EXCEPT ![n].filled = filled,
                            ![n].status = IF filled = book[n].qty
                                          THEN "COMPLETE" ELSE "OPEN"]
  /\ UNCHANGED <<process, wire, stray>>

Reject(n) ==
  /\ book[n].status = "OPEN"
  /\ book[n].filled = 0
  /\ book' = [book EXCEPT ![n].status = "REJECTED"]
  /\ UNCHANGED <<process, wire, stray>>

\* The row is cancelled: by cancel_order, or at the end of a DAY order.
CancelRow(n) ==
  /\ book[n].status = "OPEN"
  /\ book' = [book EXCEPT ![n].status = "CANCELLED"]
  /\ UNCHANGED <<process, wire, stray>>

-----------------------------------------------------------------------------

Adapter ==
  \/ Hydrate
  \/ \E id \in Ids, qty \in Quantities : PlaceRecovered(id, qty)
  \/ \E id \in Ids, qty \in Quantities : PlaceNew(id, qty)
  \/ PlaceReturns
  \/ PlaceRaises
  \/ \E id \in Ids : Cancel(id)
  \/ \E id \in Ids : Refresh(id)
  \/ Crash
  \/ Start

Exchange ==
  \/ Accept
  \/ \E request \in stray : AcceptStray(request)
  \/ \E n \in DOMAIN book : Fill(n)
  \/ \E n \in DOMAIN book : Reject(n)
  \/ \E n \in DOMAIN book : CancelRow(n)

Next == Adapter \/ Exchange

Spec == Init /\ [][Next]_vars

-----------------------------------------------------------------------------
(* Properties *)

\* At most one order: on a wire where no request outlives its call, an id has
\* at most one row, whatever crashes, raised calls, failed saves and retries
\* happened (place_order's "checks the local store and the broker's order
\* book before deciding whether a genuinely new submission is safe").
AtMostOneOrder ==
  wire = "prompt" =>
    \A m, n \in DOMAIN book : book[m].id = book[n].id => m = n

\* Write-ahead: every order the exchange holds has its entry in the file
\* (begin_attempt saves before the client is called), so that a restarted
\* process can find it; and every cached order has its entry in memory, so
\* that mark_terminal never misses one.
StoreCoversOrders ==
  /\ \A n \in DOMAIN book : disk[book[n].id] # "absent"
  /\ \A id \in Ids : cache[id] # NoOrder => entries[id] # "absent"

\* A cached order is an order of its own id, and what the adapter reports as
\* final - filled or rejected - is what the exchange holds, fills included.
\* (CANCELLED is not covered: cancel_order reports it before it has happened.)
FinalViewIsTrue ==
  \A id \in Ids :
    LET order == cache[id]
    IN /\ order # NoOrder => order.row \in RowsOf(id)
       /\ order.status \in {"FILLED", "REJECTED"} =>
            /\ StatusOf(book[order.row].status) = order.status
            /\ book[order.row].filled = order.filled

\* hydrate() leaves no live order out: after it, every open row of the
\* exchange is a non-terminal order of list_orders(), so that the startup
\* reconciliation is not clean while an order is live (prompt wire).
HydrationIsComplete ==
  [][Hydrate /\ wire = "prompt" =>
       \A n \in DOMAIN book : book[n].status = "OPEN" =>
         /\ cache'[book[n].id].row = n
         /\ cache'[book[n].id].status = "SUBMITTED"
         /\ cache'[book[n].id].filled = book[n].filled
         /\ ~ReportIsClean']_vars

\* What the exchange holds for an id: on a prompt wire, its only row.
OrderOf(id) ==
  IF RowsOf(id) = {} THEN [qty |-> 0, filled |-> 0, status |-> "NONE"]
  ELSE LET row == book[FirstRow(id)]
       IN [qty |-> row.qty, filled |-> row.filled, status |-> row.status]

ViewOf(id) == [filled |-> cache[id].filled, status |-> cache[id].status]

Orders == [id \in Ids |-> OrderOf(id)]
Views == [id \in Ids |-> ViewOf(id)]

\* The promise of IdempotentOrders, read through the exchange's book and the
\* adapter's cache.
Promise == INSTANCE IdempotentOrders WITH order <- Orders, view <- Views

\* On a prompt wire the adapter, its store and the exchange together are an
\* idempotent order register: every step is one of its steps, or changes
\* nothing it shows.
KeepsPromise ==
  Promise!Init /\ [][wire = "prompt" => Promise!Next]_<<Promise!vars>>
=============================================================================
