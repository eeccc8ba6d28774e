-------------------------- MODULE IdempotentOrders --------------------------
(***************************************************************************)
(* What a broker adapter promises the order manager, without its store,     *)
(* its cache or the wire (execution/broker.py, the BrokerAdapter protocol,  *)
(* and the idempotency promise of OrderRequest in execution/models.py): a   *)
(* client order id stands for at most one order, however often it is        *)
(* submitted; the order's quantity never changes, its fills only grow, and  *)
(* once it is closed it stays so.  What the platform believes of an order   *)
(* is unknown, or was learnt from that order.                               *)
(***************************************************************************)
EXTENDS Naturals

CONSTANTS Ids, Quantities

VARIABLES
  order,  \* the one order of each id, as the exchange holds it
  view    \* what the platform knows of it

vars == <<order, view>>

Unplaced == [qty |-> 0, filled |-> 0, status |-> "NONE"]
Unknown == [filled |-> 0, status |-> "NONE"]

Placed(id) == order[id] # Unplaced
Open(id) == order[id].status = "OPEN"

Init ==
  /\ order = [id \in Ids |-> Unplaced]
  /\ view = [id \in Ids |-> Unknown]

Place(id, qty) ==
  /\ ~Placed(id)
  /\ order' = [order EXCEPT ![id] = [qty |-> qty, filled |-> 0, status |-> "OPEN"]]
  /\ UNCHANGED view

Progress(id) ==
  /\ Open(id)
  /\ \E filled \in order[id].filled + 1 .. order[id].qty :
       order' = [order EXCEPT ![id] =
                   [qty |-> order[id].qty, filled |-> filled,
                    status |-> IF filled = order[id].qty THEN "COMPLETE" ELSE "OPEN"]]
  /\ UNCHANGED view

Close(id) ==
  /\ Open(id)
  /\ \/ order' = [order EXCEPT ![id].status = "CANCELLED"]
     \/ order[id].filled = 0 /\ order' = [order EXCEPT ![id].status = "REJECTED"]
  /\ UNCHANGED view

Seen(id) ==
  [filled |-> order[id].filled,
   status |-> CASE order[id].status = "OPEN" -> "SUBMITTED"
                [] order[id].status = "COMPLETE" -> "FILLED"
                [] OTHER -> order[id].status]

\* Some placed orders are read from the exchange.
Learn ==
  /\ \E ids \in SUBSET {id \in Ids : Placed(id)} :
       view' = [id \in Ids |-> IF id \in ids THEN Seen(id) ELSE view[id]]
  /\ UNCHANGED order

\* The exchange's acknowledgement: the order exists, its progress is not told.
Acknowledge(id) ==
  /\ Placed(id)
  /\ view' = [view EXCEPT ![id] = [filled |-> 0, status |-> "SUBMITTED"]]
  /\ UNCHANGED order

\* A cancellation is accepted before it takes effect.
AskCancel(id) ==
  /\ Open(id)
  /\ view[id].status = "SUBMITTED"
  /\ view' = [view EXCEPT ![id].status = "CANCELLED"]
  /\ UNCHANGED order

Forget ==
  /\ view' = [id \in Ids |-> Unknown]
  /\ UNCHANGED order

Next ==
  \/ \E id \in Ids, qty \in Quantities : Place(id, qty)
  \/ \E id \in Ids : Progress(id) \/ Close(id) \/ Acknowledge(id) \/ AskCancel(id)
  \/ Learn
  \/ Forget

Spec == Init /\ [][Next]_vars
=============================================================================
