------------------------------- MODULE Orders -------------------------------
(***************************************************************************)
(* Draft orders, orders and the stock they hold: the draft operations of   *)
(* apps/api/src/orders/order.service.ts and the two order commands of      *)
(* packages/db/src/order-commands.ts.                                      *)
(*                                                                         *)
(* Every operation is one database transaction.  It locks the key of the   *)
(* command, the row of the draft or the order and the balances before it   *)
(* reads them, and rolls back as a whole when a check fails: a successful  *)
(* operation is one step, at its commit, and a failed one stutters.  How   *)
(* transactions interleave until then is the subject of StockTransactions. *)
(*                                                                         *)
(* What is read without a lock is the catalog and the pricing rules.  They *)
(* are not in this module: whether an item is on sale at its quote, when   *)
(* it is quoted and while the draft is confirmed, is the subject of module *)
(* Pricing, and here an operation may find it so or fail, at any time.     *)
(*                                                                         *)
(* An order gets a random id inside the confirm command that creates it:   *)
(* the idempotency key of that command stands for the id.  A reservation   *)
(* belongs to one order item: reservation[o][t] is that of target t in o.  *)
(***************************************************************************)
EXTENDS Integers, FiniteSets

CONSTANTS
  Drafts,       \* draft order ids
  Keys,         \* idempotency keys of order commands
  Targets,      \* (location, variant) pairs, location and variant active
  Quotes,       \* what an item is sold at: list price, unit price and decision
  Quantities,   \* quantities clients send
  MaxStock,     \* bound on the stock put on a shelf
  MaxVersion,   \* bound on the version of a draft
  NoOrder,      \* null order
  NoCommand     \* null command

\* The items of a draft: at most one per target (quoteItems refuses two).
Items == UNION {[S -> [quantity : Quantities, quote : Quotes]] :
                  S \in (SUBSET Targets) \ {{}}}

OrderStatus ==
  {"new", "confirmed", "preparing", "shipped", "delivered", "cancelled"}

DraftStatus == {"absent", "draft", "awaiting_confirmation", "confirmed", "cancelled"}

\* "none" is a row that does not exist.
ReservationStatus == {"none", "active", "released", "committed"}

Versions == 0..MaxVersion

\* complete: customer name, phone and shipping address are all there.
DraftRow ==
  [status : DraftStatus \ {"absent"}, version : Versions \ {0}, items : Items,
   complete : BOOLEAN]

NoDraft == [status |-> "absent", version |-> 0, items |-> <<>>, complete |-> FALSE]

OrderRow ==
  [draft : Drafts, status : OrderStatus, version : Nat, items : Items]

\* What command_fingerprint is the hash of.
Command ==
  [type : {"confirm"}, order : Keys, draft : Drafts, version : Versions]
    \cup [type : {"transition", "cancel"}, order : Keys, target : OrderStatus]

ASSUME OrdersAssumption ==
  /\ Quantities \subseteq Nat \ {0}
  /\ MaxStock \in Nat
  /\ MaxVersion \in Nat \ {0}
  /\ NoOrder \notin OrderRow
  /\ NoCommand \notin Command

VARIABLES
  draft,        \* draft_orders with their draft_order_items
  shown,        \* the draft as the client that asks for approval last read it
  order,        \* orders with their order_items, by id
  command,      \* order_commands, by idempotency key
  onHand,       \* inventory_balances.on_hand
  reserved,     \* inventory_balances.reserved
  reservation   \* status of the reservation of each order item

stock == <<onHand, reserved, reservation>>

vars == <<draft, shown, order, command, stock>>

-----------------------------------------------------------------------------
(* Helpers.                                                                *)

Exists(o) == order[o] # NoOrder

\* The quantity a set of items asks of a target.
QuantityOf(items, t) == IF t \in DOMAIN items THEN items[t].quantity ELSE 0

\* replayIfPresent found nothing.
Fresh(k) == command[k] = NoCommand

transitions ==
  [new       |-> {"confirmed", "cancelled"},
   confirmed |-> {"preparing", "cancelled"},
   preparing |-> {"shipped", "cancelled"},
   shipped   |-> {"delivered"},
   delivered |-> {},
   cancelled |-> {}]

\* reserveInventory for every item of a new order: all of them or none.
ReserveItems(o, items) ==
  /\ \A t \in DOMAIN items : onHand[t] - reserved[t] >= items[t].quantity
  /\ reserved' = [t \in Targets |-> reserved[t] + QuantityOf(items, t)]
  /\ reservation' = [reservation EXCEPT ![o] = [t \in Targets |->
       IF t \in DOMAIN items THEN "active" ELSE @[t]]]
  /\ UNCHANGED onHand

\* commitInventoryReservation or releaseInventoryReservation for each of the
\* items: all of them or, when one reservation is no longer active, none.
SettleItems(o, items, status) ==
  LET Sold(t) == IF status = "committed" THEN QuantityOf(items, t) ELSE 0
  IN  /\ \A t \in DOMAIN items :
           /\ reservation[o][t] = "active"
           /\ reserved[t] >= items[t].quantity
           /\ onHand[t] - Sold(t) >= reserved[t] - items[t].quantity
      /\ reserved' = [t \in Targets |-> reserved[t] - QuantityOf(items, t)]
      /\ onHand' = [t \in Targets |-> onHand[t] - Sold(t)]
      /\ reservation' = [reservation EXCEPT ![o] = [t \in Targets |->
           IF t \in DOMAIN items THEN status ELSE @[t]]]

-----------------------------------------------------------------------------
(* The initial state: an empty shop with some stock on the shelves.        *)

Init ==
  /\ draft = [d \in Drafts |-> NoDraft]
  /\ shown = draft
  /\ order = [k \in Keys |-> NoOrder]
  /\ command = [k \in Keys |-> NoCommand]
  /\ onHand \in [Targets -> 0..MaxStock]
  /\ reserved = [t \in Targets |-> 0]
  /\ reservation = [o \in Keys |-> [t \in Targets |-> "none"]]

-----------------------------------------------------------------------------
(* Drafts.                                                                 *)

CreateDraft(d, items, complete) ==
  /\ draft[d].status = "absent"
  /\ draft' = [draft EXCEPT ![d] = [status |-> "draft", version |-> 1,
                                    items |-> items, complete |-> complete]]
  /\ UNCHANGED <<shown, order, command, stock>>

\* An edit always takes back the submission.
UpdateDraft_AnyStatus(d, version, items, complete) ==
  /\ draft[d].status # "absent"
  /\ draft[d].version = version
  /\ version < MaxVersion
  /\ draft' = [draft EXCEPT ![d] = [status |-> "draft", version |-> version + 1,
                                    items |-> items, complete |-> complete]]
  /\ UNCHANGED <<shown, order, command, stock>>

UpdateDraft(d, version, items, complete) ==
  /\ draft[d].status \in {"draft", "awaiting_confirmation"}
  /\ draft[d].version = version
  /\ version < MaxVersion
  /\ draft' = [draft EXCEPT ![d] = [status |-> "draft", version |-> version + 1,
                                    items |-> items, complete |-> complete]]
  /\ UNCHANGED <<shown, order, command, stock>>

SubmitDraft(d, version) ==
  /\ draft[d].status = "draft"
  /\ draft[d].version = version
  /\ version < MaxVersion
  /\ draft[d].complete
  /\ draft[d].items # <<>>
  /\ draft' = [draft EXCEPT ![d].status = "awaiting_confirmation",
                            ![d].version = version + 1]
  /\ UNCHANGED <<shown, order, command, stock>>

\* Cancelling a cancelled draft succeeds and changes nothing.
CancelDraft(d, version) ==
  /\ draft[d].status \in {"draft", "awaiting_confirmation"}
  /\ draft[d].version = version
  /\ version < MaxVersion
  /\ draft' = [draft EXCEPT ![d].status = "cancelled", ![d].version = version + 1]
  /\ UNCHANGED <<shown, order, command, stock>>

\* getDraft, by the client that puts the draft to the customer for approval.
ShowDraft(d) ==
  /\ draft[d].status # "absent"
  /\ shown' = [shown EXCEPT ![d] = draft[d]]
  /\ UNCHANGED <<draft, order, command, stock>>

-----------------------------------------------------------------------------
(* Order commands.                                                         *)

\* confirmDraftOrder.  The customer has approved the draft the client showed
\* last, and the client sends the version it has shown.  The items, which the
\* lock of the draft keeps as they are, may or may not pass the check that they
\* are still sold like that.
ConfirmDraft_AnyVersion(k, d) ==
  /\ Fresh(k)
  /\ draft[d].status = "awaiting_confirmation"
  /\ draft[d].complete
  /\ draft[d].items # <<>>
  /\ order' = [order EXCEPT ![k] = [draft |-> d, status |-> "confirmed",
                                    version |-> 2, items |-> draft[d].items]]
  /\ ReserveItems(k, draft[d].items)
  /\ draft' = [draft EXCEPT ![d].status = "confirmed"]
  /\ command' = [command EXCEPT ![k] = [type |-> "confirm", order |-> k, draft |-> d,
                                        version |-> draft[d].version]]
  /\ UNCHANGED shown

ConfirmDraft(k, d) ==
  LET version == shown[d].version
  IN  /\ Fresh(k)
      /\ draft[d].status = "awaiting_confirmation"
      /\ draft[d].version = version
      /\ draft[d].complete
      /\ draft[d].items # <<>>
      /\ order' = [order EXCEPT ![k] = [draft |-> d, status |-> "confirmed",
                                        version |-> 2, items |-> draft[d].items]]
      /\ ReserveItems(k, draft[d].items)
      /\ draft' = [draft EXCEPT ![d].status = "confirmed"]
      /\ command' = [command EXCEPT ![k] = [type |-> "confirm", order |-> k,
                                            draft |-> d, version |-> version]]
      /\ UNCHANGED shown

TransitionOrder_ShipsHeldStock(k, o, target) ==
  /\ Fresh(k)
  /\ Exists(o)
  /\ target \in transitions[order[o].status]
  /\ IF target = "cancelled" THEN SettleItems(o, order[o].items, "released")
                             ELSE UNCHANGED stock
  /\ order' = [order EXCEPT ![o].status = target, ![o].version = @ + 1]
  /\ command' = [command EXCEPT ![k] =
       [type |-> IF target = "cancelled" THEN "cancel" ELSE "transition",
        order |-> o, target |-> target]]
  /\ UNCHANGED <<draft, shown>>

TransitionOrder(k, o, target) ==
  /\ Fresh(k)
  /\ Exists(o)
  /\ target \in transitions[order[o].status]
  /\ CASE target = "shipped" -> SettleItems(o, order[o].items, "committed")
       [] target = "cancelled" -> SettleItems(o, order[o].items, "released")
       [] OTHER -> UNCHANGED stock
  /\ order' = [order EXCEPT ![o].status = target, ![o].version = @ + 1]
  /\ command' = [command EXCEPT ![k] =
       [type |-> IF target = "cancelled" THEN "cancel" ELSE "transition",
        order |-> o, target |-> target]]
  /\ UNCHANGED <<draft, shown>>

-----------------------------------------------------------------------------
(* The inventory desk.                                                     *)

\* Receive, return, sell and adjust: on_hand never falls below reserved.
MoveStock(t, quantity) ==
  /\ onHand[t] + quantity \in reserved[t]..MaxStock
  /\ onHand' = [onHand EXCEPT ![t] = @ + quantity]
  /\ UNCHANGED <<draft, shown, order, command, reserved, reservation>>

\* InventoryService.release and .commit take the id of any reservation: an
\* inventory manager can settle by hand the one an order item stands on.
SettleByHand(o, t, status) ==
  /\ Exists(o)
  /\ t \in DOMAIN order[o].items
  /\ SettleItems(o, [u \in {t} |-> order[o].items[t]], status)
  /\ UNCHANGED <<draft, shown, order, command>>

-----------------------------------------------------------------------------
\* Everything but the inventory desk settling the reservations of orders.
OrderNext ==
  \/ \E d \in Drafts :
       \/ \E items \in Items, complete \in BOOLEAN : CreateDraft(d, items, complete)
       \/ \E version \in Versions, complete \in BOOLEAN :
            \E items \in Items : UpdateDraft(d, version, items, complete)
       \/ \E version \in Versions : SubmitDraft(d, version)
       \/ \E version \in Versions : CancelDraft(d, version)
       \/ ShowDraft(d)
       \/ \E k \in Keys : ConfirmDraft(k, d)
  \/ \E k, o \in Keys, target \in OrderStatus : TransitionOrder(k, o, target)
  \/ \E t \in Targets, q \in Quantities : MoveStock(t, q) \/ MoveStock(t, -q)

DeskNext ==
  \E o \in Keys, t \in Targets, status \in {"released", "committed"} :
    SettleByHand(o, t, status)

Next == OrderNext \/ DeskNext

Spec == Init /\ [][Next]_vars

\* The same system when reservations of orders are left to the order commands.
OrderSpec == Init /\ [][OrderNext]_vars

-----------------------------------------------------------------------------
TypeOK ==
  /\ draft \in [Drafts -> DraftRow \cup {NoDraft}]
  /\ shown \in [Drafts -> DraftRow \cup {NoDraft}]
  /\ order \in [Keys -> OrderRow \cup {NoOrder}]
  /\ command \in [Keys -> Command \cup {NoCommand}]
  /\ onHand \in [Targets -> Int]
  /\ reserved \in [Targets -> Int]
  /\ reservation \in [Keys -> [Targets -> ReservationStatus]]

\* The promise to the customer, ORDERS_API.md "Safety model": what is ordered is
\* what the customer was shown when approving, to the item, the quantity and the
\* quote, however drafts are edited, submitted and shown again meanwhile.
OrderedAsApproved ==
  [][\A k \in Keys : (~Exists(k) /\ order'[k] # NoOrder) =>
       order'[k].items = shown[order'[k].draft].items]_vars

\* A draft becomes at most one order, under retries with new keys too, and
\* from then on the draft stays what was ordered.
OneOrderPerDraft ==
  /\ \A k \in Keys : Exists(k) =>
       /\ draft[order[k].draft].status = "confirmed"
       /\ draft[order[k].draft].items = order[k].items
       /\ \A j \in Keys : Exists(j) /\ order[j].draft = order[k].draft => j = k
  /\ \A d \in Drafts : draft[d].status = "confirmed" =>
       \E k \in Keys : Exists(k) /\ order[k].draft = d

DraftView ==
  [d \in Drafts |-> [status |-> draft[d].status, version |-> draft[d].version,
                     content |-> draft[d].items]]

PlacedOrders ==
  {[key |-> k, draft |-> order[k].draft, content |-> order[k].items] :
     k \in {o \in Keys : Exists(o)}}

Contract == INSTANCE OrderContract WITH
  Contents <- Items, Nothing <- <<>>, draft <- DraftView, placed <- PlacedOrders

\* To its clients the order service is what OrderContract says, whatever happens to
\* the stock and the orders: an order never changes what it is for, and
\* commands that are refused or repeated change nothing.
ImplementsOrderContract == Contract!Spec

\* What an order's status says of the reservations of all its items.
HeldAs(status) ==
  CASE status \in {"confirmed", "preparing"} -> "active"
    [] status \in {"shipped", "delivered"} -> "committed"
    [] status = "cancelled" -> "released"
    [] OTHER -> "none"

\* An order's status and the reservations of its items agree, and there are no
\* reservations without an order item.
StockFollows(o) ==
  \A t \in Targets :
    reservation[o][t] =
      IF Exists(o) /\ t \in DOMAIN order[o].items
      THEN HeldAs(order[o].status) ELSE "none"

\* An order and the stock it stands on agree: all items of a pending order are
\* held, all items of a shipped one are sold, none of a cancelled one is held.
ReservationsFollowOrder == \A o \in Keys : StockFollows(o)

\* No overselling: no target ever holds more than it has.
StockBounds ==
  \A t \in Targets : 0 <= reserved[t] /\ reserved[t] <= onHand[t]

\* ORDERS_API.md: "Cancellation is allowed from `new`, `confirmed`, or
\* `preparing`."  So the release of its items must not be refused.
CancellationAllowed ==
  \A o \in Keys :
    Exists(o) /\ order[o].status \in {"new", "confirmed", "preparing"} =>
      \A t \in DOMAIN order[o].items : reservation[o][t] = "active"
=============================================================================
