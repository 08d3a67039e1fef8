----------------------------- MODULE OrdersDesk -----------------------------
(***************************************************************************)
(* Orders beside an inventory desk that settles reservations of orders by  *)
(* hand (InventoryService.release and .commit), with a record of the       *)
(* orders it has done that to.                                             *)
(***************************************************************************)
EXTENDS Orders

VARIABLE byHand  \* orders of which the desk has settled a reservation

deskVars == <<vars, byHand>>

DeskInit == Init /\ byHand = {}

DeskSettles ==
  \E o \in Keys, t \in Targets, status \in {"released", "committed"} :
    SettleByHand(o, t, status) /\ byHand' = byHand \cup {o}

OthersAct == OrderNext /\ UNCHANGED byHand

DeskSpec == DeskInit /\ [][OthersAct \/ DeskSettles]_deskVars

-----------------------------------------------------------------------------
\* An order and the stock it stands on agree for every order the desk has left
\* alone, whatever the desk did to the others: all items of a pending order are
\* held, all items of a shipped one are sold, none of a cancelled one is held.
OrdersKeepTheirStock == \A o \in Keys \ byHand : StockFollows(o)
=============================================================================
