------------------------ MODULE MCStockTransactions ------------------------
(***************************************************************************)
(* Two orders that want the same two targets in opposite order, with stock *)
(* for one of them on one target, and what clients and the inventory desk  *)
(* may do to them.                                                         *)
(***************************************************************************)
EXTENDS StockTransactions, TLC

CONSTANTS h1, h2, h3, k1, k2, k3, k4, k5, o1, o2, t1, t2

Item(t) == [target |-> t, quantity |-> 1]

MCOrderItems == (o1 :> <<Item(t1), Item(t2)>>) @@ (o2 :> <<Item(t2), Item(t1)>>)

MCStock == (t1 :> 1) @@ (t2 :> 2)

\* Both orders confirmed, the first cancelled, one of its reservations committed
\* by hand, a unit received.
MCWork ==
  (k1 :> [kind |-> "confirm", order |-> o1]) @@
  (k2 :> [kind |-> "confirm", order |-> o2]) @@
  (k3 :> [kind |-> "cancel", order |-> o1]) @@
  (k4 :> [kind |-> "commit", order |-> o1, item |-> 2]) @@
  (k5 :> [kind |-> "move", line |-> Item(t1)])
=============================================================================
