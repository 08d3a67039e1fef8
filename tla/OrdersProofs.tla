---------------------------- MODULE OrdersProofs ----------------------------
(***************************************************************************)
(* Proofs about Orders, for any number of drafts, keys, targets, quotes    *)
(* and quantities.                                                         *)
(***************************************************************************)
EXTENDS OrdersDesk, FiniteSetTheorems, TLAPS

-----------------------------------------------------------------------------
(* Facts about the data.                                                   *)

\* Clients order positive quantities.
LEMMA PositiveQuantities == \A q \in Quantities : q \in Nat /\ q > 0 /\ -q \in Int
  BY OrdersAssumption DEF OrdersAssumption

\* The items of a draft: a nonempty set of targets, each with a positive
\* quantity.
LEMMA ItemsFacts ==
  ASSUME NEW items \in Items
  PROVE  /\ DOMAIN items \subseteq Targets
         /\ DOMAIN items # {}
         /\ \A t \in DOMAIN items : items[t].quantity \in Nat /\ items[t].quantity > 0
<1>1. PICK S \in (SUBSET Targets) \ {{}} :
        items \in [S -> [quantity : Quantities, quote : Quotes]]
  BY DEF Items
<1>2. DOMAIN items = S /\ S # {} /\ S \subseteq Targets
  BY <1>1
<1>3. ASSUME NEW t \in S
      PROVE  items[t].quantity \in Nat /\ items[t].quantity > 0
  <2>1. items[t] \in [quantity : Quantities, quote : Quotes]
    BY <1>1
  <2>2. items[t].quantity \in Quantities
    BY <2>1
  <2> QED
    BY <2>2, PositiveQuantities
<1> QED
  BY <1>2, <1>3

\* What an item asks of a target is a natural number.
LEMMA QuantityOfNat ==
  ASSUME NEW items \in Items, NEW t \in Targets
  PROVE  QuantityOf(items, t) \in Nat
  BY ItemsFacts DEF QuantityOf

\* One item of an order, by itself, is a set of items.
LEMMA SingleItem ==
  ASSUME NEW items \in Items, NEW t \in DOMAIN items
  PROVE  [u \in {t} |-> items[t]] \in Items
<1>1. PICK S \in (SUBSET Targets) \ {{}} :
        items \in [S -> [quantity : Quantities, quote : Quotes]]
  BY DEF Items
<1>2. items[t] \in [quantity : Quantities, quote : Quotes]
  BY <1>1
<1>3. {t} \in (SUBSET Targets) \ {{}}
  BY <1>1
<1>4. [u \in {t} |-> items[t]] \in [{t} -> [quantity : Quantities, quote : Quotes]]
  BY <1>2
<1> QED
  BY <1>3, <1>4 DEF Items

\* A draft row that is there is a proper row.
LEMMA DraftRowFacts ==
  ASSUME TypeOK, NEW d \in Drafts, draft[d].status # "absent"
  PROVE  draft[d] \in DraftRow
  BY DEF TypeOK, NoDraft

\* An order that exists is a proper row.
LEMMA OrderRowFacts ==
  ASSUME TypeOK, NEW o \in Keys, Exists(o)
  PROVE  order[o] \in OrderRow
  BY DEF TypeOK, Exists

-----------------------------------------------------------------------------
(* Type correctness.                                                       *)

\* Reserving keeps the stock tables typed.
LEMMA ReserveItemsTyped ==
  ASSUME TypeOK, NEW o \in Keys, NEW items \in Items, ReserveItems(o, items)
  PROVE  /\ onHand' \in [Targets -> Int]
         /\ reserved' \in [Targets -> Int]
         /\ reservation' \in [Keys -> [Targets -> ReservationStatus]]
<1>1. \A t \in Targets : QuantityOf(items, t) \in Nat
  BY QuantityOfNat
<1>2. onHand' \in [Targets -> Int]
  BY DEF TypeOK, ReserveItems
<1>3. reserved' \in [Targets -> Int]
  BY <1>1 DEF TypeOK, ReserveItems
<1>4. reservation' \in [Keys -> [Targets -> ReservationStatus]]
  BY DEF TypeOK, ReserveItems, ReservationStatus
<1> QED
  BY <1>2, <1>3, <1>4

\* Settling keeps them typed too.
LEMMA SettleItemsTyped ==
  ASSUME TypeOK, NEW o \in Keys, NEW items \in Items,
         NEW status \in {"released", "committed"}, SettleItems(o, items, status)
  PROVE  /\ onHand' \in [Targets -> Int]
         /\ reserved' \in [Targets -> Int]
         /\ reservation' \in [Keys -> [Targets -> ReservationStatus]]
<1>1. \A t \in Targets : QuantityOf(items, t) \in Nat
  BY QuantityOfNat
<1>2. \A t \in Targets :
        /\ onHand[t] - (IF status = "committed" THEN QuantityOf(items, t) ELSE 0) \in Int
        /\ reserved[t] - QuantityOf(items, t) \in Int
  BY <1>1 DEF TypeOK
<1>3. /\ onHand' \in [Targets -> Int]
      /\ reserved' \in [Targets -> Int]
  BY <1>2 DEF SettleItems
<1>4. reservation' \in [Keys -> [Targets -> ReservationStatus]]
  BY DEF TypeOK, SettleItems, ReservationStatus
<1> QED
  BY <1>3, <1>4

\* What a step does to the drafts, with everything else about it forgotten.
DraftStep(d, row) ==
  /\ row \in DraftRow
  /\ draft' = [draft EXCEPT ![d] = row]
  /\ UNCHANGED <<shown, order, command, stock>>

\* The draft operations put a proper row in place of one that is not confirmed.
LEMMA DraftOperations ==
  ASSUME TypeOK, NEW d \in Drafts, NEW version \in Versions,
         NEW items \in Items, NEW complete \in BOOLEAN,
         \/ CreateDraft(d, items, complete)
         \/ UpdateDraft(d, version, items, complete)
         \/ SubmitDraft(d, version)
         \/ CancelDraft(d, version)
  PROVE  \E row \in DraftRow :
           /\ DraftStep(d, row)
           /\ row.status # "confirmed"
           /\ draft[d].status # "confirmed"
           /\ row.version = draft[d].version + 1
<1>0. MaxVersion \in Nat \ {0} /\ 1 \in Versions \ {0}
  BY OrdersAssumption DEF OrdersAssumption, Versions
<1>1. CASE CreateDraft(d, items, complete)
  <2> DEFINE row == [status |-> "draft", version |-> 1, items |-> items,
                     complete |-> complete]
  <2>1. row \in DraftRow
    BY <1>0 DEF DraftRow, DraftStatus
  <2>2. draft[d] = NoDraft
    BY <1>1 DEF CreateDraft, TypeOK, DraftRow
  <2>3. row.status # "confirmed" /\ row.version = 1
    OBVIOUS
  <2>4. draft[d].status # "confirmed" /\ row.version = draft[d].version + 1
    BY <2>2 DEF NoDraft
  <2>5. DraftStep(d, row)
    BY <1>1, <2>1 DEF CreateDraft, DraftStep
  <2> HIDE DEF row
  <2> QED
    BY <2>1, <2>3, <2>4, <2>5
<1>2. CASE UpdateDraft(d, version, items, complete)
  <2> DEFINE row == [status |-> "draft", version |-> version + 1, items |-> items,
                     complete |-> complete]
  <2>1. version + 1 \in Versions \ {0}
    BY <1>0, <1>2 DEF UpdateDraft, Versions
  <2>2. row \in DraftRow
    BY <2>1 DEF DraftRow, DraftStatus
  <2> QED
    BY <1>2, <2>2 DEF UpdateDraft, DraftStep
<1>3. CASE SubmitDraft(d, version)
  <2> DEFINE row == [draft[d] EXCEPT !.status = "awaiting_confirmation",
                                     !.version = version + 1]
  <2>1. draft[d] \in DraftRow
    BY <1>3, DraftRowFacts DEF SubmitDraft
  <2>2. version + 1 \in Versions \ {0}
    BY <1>0, <1>3 DEF SubmitDraft, Versions
  <2>3. row \in DraftRow /\ row.status = "awaiting_confirmation" /\ row.version = version + 1
    BY <2>1, <2>2 DEF DraftRow, DraftStatus
  <2>4. draft' = [draft EXCEPT ![d] = row]
    BY <1>3 DEF SubmitDraft
  <2> QED
    BY <1>3, <2>3, <2>4 DEF SubmitDraft, DraftStep
<1>4. CASE CancelDraft(d, version)
  <2> DEFINE row == [draft[d] EXCEPT !.status = "cancelled",
                                     !.version = version + 1]
  <2>1. draft[d] \in DraftRow
    BY <1>4, DraftRowFacts DEF CancelDraft
  <2>2. version + 1 \in Versions \ {0}
    BY <1>0, <1>4 DEF CancelDraft, Versions
  <2>3. row \in DraftRow /\ row.status = "cancelled" /\ row.version = version + 1
    BY <2>1, <2>2 DEF DraftRow, DraftStatus
  <2>4. draft' = [draft EXCEPT ![d] = row]
    BY <1>4 DEF CancelDraft
  <2> QED
    BY <1>4, <2>3, <2>4 DEF CancelDraft, DraftStep
<1> QED
  BY <1>1, <1>2, <1>3, <1>4

\* The steps of the system, by what they write.
LEMMA StepKinds ==
  ASSUME TypeOK, [Next]_vars
  PROVE  \/ UNCHANGED vars
         \/ \E d \in Drafts, row \in DraftRow :
              /\ DraftStep(d, row)
              /\ row.status # "confirmed"
              /\ draft[d].status # "confirmed"
              /\ row.version = draft[d].version + 1
         \/ \E d \in Drafts : ShowDraft(d)
         \/ \E d \in Drafts, k \in Keys : ConfirmDraft(k, d)
         \/ \E k, o \in Keys, target \in OrderStatus : TransitionOrder(k, o, target)
         \/ \E t \in Targets, q \in Int : MoveStock(t, q)
         \/ \E o \in Keys, t \in Targets, status \in {"released", "committed"} :
              SettleByHand(o, t, status)
<1>1. \A q \in Quantities : q \in Int /\ -q \in Int
  BY PositiveQuantities
<1>2. ASSUME NEW d \in Drafts, NEW items \in Items, NEW complete \in BOOLEAN,
             CreateDraft(d, items, complete)
      PROVE  \E row \in DraftRow :
               /\ DraftStep(d, row)
               /\ row.status # "confirmed"
               /\ draft[d].status # "confirmed"
               /\ row.version = draft[d].version + 1
  <2>1. 0 \in Versions
    BY OrdersAssumption DEF OrdersAssumption, Versions
  <2> QED
    BY <1>2, <2>1, DraftOperations
<1>3. ASSUME NEW d \in Drafts, NEW version \in Versions, NEW complete \in BOOLEAN,
             NEW items \in Items, UpdateDraft(d, version, items, complete)
      PROVE  \E row \in DraftRow :
               /\ DraftStep(d, row)
               /\ row.status # "confirmed"
               /\ draft[d].status # "confirmed"
               /\ row.version = draft[d].version + 1
  BY <1>3, DraftOperations
<1>4. ASSUME NEW d \in Drafts, NEW version \in Versions,
             SubmitDraft(d, version) \/ CancelDraft(d, version)
      PROVE  \E row \in DraftRow :
               /\ DraftStep(d, row)
               /\ row.status # "confirmed"
               /\ draft[d].status # "confirmed"
               /\ row.version = draft[d].version + 1
  <2>1. draft[d].items \in Items
    BY <1>4, DraftRowFacts DEF SubmitDraft, CancelDraft, DraftRow
  <2>2. TRUE \in BOOLEAN
    OBVIOUS
  <2> QED
    BY <1>4, <2>1, <2>2, DraftOperations
<1>5. CASE OrderNext
  BY <1>5, <1>1, <1>2, <1>3, <1>4 DEF OrderNext
<1>6. CASE DeskNext
  BY <1>6 DEF DeskNext
<1> QED
  BY <1>5, <1>6 DEF Next

\* The initial state is typed.
LEMMA TypeInit == Init => TypeOK
<1> SUFFICES ASSUME Init PROVE TypeOK
  OBVIOUS
<1>1. onHand \in [Targets -> Int]
  BY OrdersAssumption DEF OrdersAssumption, Init
<1>2. reserved \in [Targets -> Int]
  BY DEF Init
<1>3. draft \in [Drafts -> DraftRow \cup {NoDraft}]
  BY DEF Init
<1>4. shown \in [Drafts -> DraftRow \cup {NoDraft}]
  BY <1>3 DEF Init
<1>6. /\ order \in [Keys -> OrderRow \cup {NoOrder}]
      /\ command \in [Keys -> Command \cup {NoCommand}]
      /\ reservation \in [Keys -> [Targets -> ReservationStatus]]
  BY DEF Init, ReservationStatus
<1> QED
  BY <1>1, <1>2, <1>3, <1>4, <1>6 DEF TypeOK

\* Confirming a draft creates a proper order and a proper command row.
LEMMA ConfirmDraftRows ==
  ASSUME TypeOK, NEW k \in Keys, NEW d \in Drafts, ConfirmDraft(k, d)
  PROVE  /\ draft[d] \in DraftRow
         /\ draft[d].items \in Items
         /\ order' = [order EXCEPT ![k] =
              [draft |-> d, status |-> "confirmed", version |-> 2,
               items |-> draft[d].items]]
         /\ order' \in [Keys -> OrderRow \cup {NoOrder}]
         /\ draft' = [draft EXCEPT ![d] = [draft[d] EXCEPT !.status = "confirmed"]]
         /\ draft' \in [Drafts -> DraftRow \cup {NoDraft}]
         /\ command' \in [Keys -> Command \cup {NoCommand}]
<1> DEFINE newOrder == [draft |-> d, status |-> "confirmed", version |-> 2,
                        items |-> draft[d].items]
           newDraft == [draft[d] EXCEPT !.status = "confirmed"]
           newCommand == [type |-> "confirm", order |-> k, draft |-> d,
                          version |-> shown[d].version]
<1>1. draft[d] \in DraftRow
  BY DraftRowFacts DEF ConfirmDraft
<1>2. draft[d].items \in Items /\ draft[d].version \in Versions
  BY <1>1 DEF DraftRow
<1>3. newOrder \in OrderRow
  BY <1>2 DEF OrderRow, OrderStatus
<1>4. newDraft \in DraftRow
  BY <1>1 DEF DraftRow, DraftStatus
<1>5. shown[d].version \in Versions
  BY <1>2 DEF ConfirmDraft
<1>6. newCommand \in Command
  BY <1>5 DEF Command
<1>7. order' = [order EXCEPT ![k] = newOrder]
  BY DEF ConfirmDraft
<1>8. draft' = [draft EXCEPT ![d] = newDraft]
  BY DEF ConfirmDraft
<1>9. command' = [command EXCEPT ![k] = newCommand]
  BY DEF ConfirmDraft
<1>10. order' \in [Keys -> OrderRow \cup {NoOrder}]
  BY <1>3, <1>7 DEF TypeOK
<1>11. draft' \in [Drafts -> DraftRow \cup {NoDraft}]
  BY <1>4, <1>8 DEF TypeOK
<1>12. command' \in [Keys -> Command \cup {NoCommand}]
  BY <1>6, <1>9 DEF TypeOK
<1> QED
  BY <1>1, <1>2, <1>7, <1>8, <1>10, <1>11, <1>12

\* A transition changes the status and the version of one order, and what the
\* stock tables hold for it.
LEMMA TransitionOrderRows ==
  ASSUME TypeOK, NEW k \in Keys, NEW o \in Keys, NEW target \in OrderStatus,
         TransitionOrder(k, o, target)
  PROVE  /\ order[o] \in OrderRow
         /\ order[o].items \in Items
         /\ order' = [order EXCEPT ![o] =
              [order[o] EXCEPT !.status = target, !.version = order[o].version + 1]]
         /\ order' \in [Keys -> OrderRow \cup {NoOrder}]
         /\ command' \in [Keys -> Command \cup {NoCommand}]
         /\ \/ target = "shipped" /\ SettleItems(o, order[o].items, "committed")
            \/ target = "cancelled" /\ SettleItems(o, order[o].items, "released")
            \/ target \notin {"shipped", "cancelled"} /\ UNCHANGED stock
<1> DEFINE newOrder == [order[o] EXCEPT !.status = target,
                                        !.version = order[o].version + 1]
           type == IF target = "cancelled" THEN "cancel" ELSE "transition"
           newCommand == [type |-> type, order |-> o, target |-> target]
<1>1. order[o] \in OrderRow
  BY OrderRowFacts DEF TransitionOrder
<1>2. order[o].items \in Items /\ order[o].version + 1 \in Nat
  BY <1>1 DEF OrderRow
<1>11. newOrder \in OrderRow
  BY <1>1, <1>2 DEF OrderRow
<1>3. type \in {"transition", "cancel"}
  OBVIOUS
<1>4. newCommand \in [type : {"transition", "cancel"}, order : Keys, target : OrderStatus]
  BY <1>3
<1>5. newCommand \in Command
  BY <1>4 DEF Command
<1>6. order' = [order EXCEPT ![o] = newOrder]
  BY DEF TransitionOrder
<1>7. command' = [command EXCEPT ![k] = newCommand]
  BY DEF TransitionOrder
<1>8. order' \in [Keys -> OrderRow \cup {NoOrder}]
  BY <1>6, <1>11 DEF TypeOK
<1>9. command' \in [Keys -> Command \cup {NoCommand}]
  <2> HIDE DEF newCommand
  <2> QED
    BY <1>5, <1>7 DEF TypeOK
<1>10. \/ target = "shipped" /\ SettleItems(o, order[o].items, "committed")
       \/ target = "cancelled" /\ SettleItems(o, order[o].items, "released")
       \/ target \notin {"shipped", "cancelled"} /\ UNCHANGED stock
  BY DEF TransitionOrder
<1> QED
  BY <1>1, <1>2, <1>6, <1>8, <1>9, <1>10

\* Every step keeps the tables typed.
LEMMA TypeNext == TypeOK /\ [Next]_vars => TypeOK'
<1> SUFFICES ASSUME TypeOK, [Next]_vars PROVE TypeOK'
  OBVIOUS
<1>1. CASE UNCHANGED vars
  BY <1>1 DEF TypeOK, vars, stock
<1>2. ASSUME NEW d \in Drafts, NEW row \in DraftRow, DraftStep(d, row)
      PROVE  TypeOK'
  <2>1. draft' \in [Drafts -> DraftRow \cup {NoDraft}]
    BY <1>2 DEF TypeOK, DraftStep
  <2> QED
    BY <1>2, <2>1 DEF TypeOK, DraftStep, stock
<1>3. ASSUME NEW d \in Drafts, ShowDraft(d)
      PROVE  TypeOK'
  <2>1. shown' \in [Drafts -> DraftRow \cup {NoDraft}]
    BY <1>3 DEF TypeOK, ShowDraft
  <2> QED
    BY <1>3, <2>1 DEF TypeOK, ShowDraft, stock
<1>4. ASSUME NEW d \in Drafts, NEW k \in Keys, ConfirmDraft(k, d)
      PROVE  TypeOK'
  <2>1. ReserveItems(k, draft[d].items) /\ UNCHANGED shown
    BY <1>4 DEF ConfirmDraft
  <2>2. draft[d].items \in Items
    BY <1>4, ConfirmDraftRows
  <2> QED
    BY <1>4, <2>1, <2>2, ConfirmDraftRows, ReserveItemsTyped DEF TypeOK
<1>5. ASSUME NEW k \in Keys, NEW o \in Keys, NEW target \in OrderStatus,
             TransitionOrder(k, o, target)
      PROVE  TypeOK'
  <2>1. UNCHANGED <<draft, shown>>
    BY <1>5 DEF TransitionOrder
  <2>2. /\ onHand' \in [Targets -> Int]
        /\ reserved' \in [Targets -> Int]
        /\ reservation' \in [Keys -> [Targets -> ReservationStatus]]
    <3>0. order[o].items \in Items
      BY <1>5, TransitionOrderRows
    <3>1. CASE UNCHANGED stock
      BY <3>1 DEF TypeOK, stock
    <3>2. CASE \E status \in {"released", "committed"} :
                 SettleItems(o, order[o].items, status)
      BY <3>0, <3>2, SettleItemsTyped
    <3> QED
      BY <1>5, <3>1, <3>2, TransitionOrderRows
  <2> QED
    BY <1>5, <2>1, <2>2, TransitionOrderRows DEF TypeOK
<1>7. ASSUME NEW t \in Targets, NEW q \in Int, MoveStock(t, q)
      PROVE  TypeOK'
  <2>1. onHand' \in [Targets -> Int]
    BY <1>7 DEF TypeOK, MoveStock
  <2> QED
    BY <1>7, <2>1 DEF TypeOK, MoveStock
<1>8. ASSUME NEW o \in Keys, NEW t \in Targets, NEW status \in {"released", "committed"},
             SettleByHand(o, t, status)
      PROVE  TypeOK'
  <2>1. [u \in {t} |-> order[o].items[t]] \in Items
    BY <1>8, OrderRowFacts, SingleItem DEF SettleByHand, OrderRow
  <2>2. UNCHANGED <<draft, shown, order, command>>
    BY <1>8 DEF SettleByHand
  <2>3. SettleItems(o, [u \in {t} |-> order[o].items[t]], status)
    BY <1>8 DEF SettleByHand
  <2> QED
    BY <2>1, <2>2, <2>3, SettleItemsTyped DEF TypeOK
<1> QED
  BY <1>1, <1>2, <1>3, <1>4, <1>5, <1>7, <1>8, StepKinds

\* The rows of every table are always of the table's type.
THEOREM TypeCorrect == Spec => []TypeOK
  BY TypeInit, TypeNext, PTL DEF Spec

-----------------------------------------------------------------------------
(* No overselling.                                                         *)

\* Nothing is reserved at first, and what is on the shelves is a number.
LEMMA StockBoundsInit == Init => StockBounds
  BY OrdersAssumption DEF OrdersAssumption, Init, StockBounds

\* Reserving asks for what is available.
LEMMA ReserveItemsInBounds ==
  ASSUME TypeOK, StockBounds, NEW o \in Keys, NEW items \in Items,
         ReserveItems(o, items)
  PROVE  StockBounds'
<1> SUFFICES ASSUME NEW t \in Targets
             PROVE  0 <= reserved'[t] /\ reserved'[t] <= onHand'[t]
  BY DEF StockBounds
<1>1. reserved'[t] = reserved[t] + QuantityOf(items, t) /\ onHand'[t] = onHand[t]
  BY DEF ReserveItems
<1>2. 0 <= reserved[t] /\ reserved[t] <= onHand[t]
  BY DEF StockBounds
<1>3. reserved[t] \in Int /\ onHand[t] \in Int /\ QuantityOf(items, t) \in Nat
  BY QuantityOfNat DEF TypeOK
<1>4. reserved[t] + QuantityOf(items, t) <= onHand[t]
  BY <1>2, <1>3 DEF QuantityOf, ReserveItems
<1> QED
  BY <1>1, <1>2, <1>3, <1>4

\* Settling takes from reserved what was reserved, and never more from the
\* shelf than from reserved.
LEMMA SettleItemsInBounds ==
  ASSUME TypeOK, StockBounds, NEW o \in Keys, NEW items \in Items,
         NEW status \in {"released", "committed"}, SettleItems(o, items, status)
  PROVE  StockBounds'
<1> SUFFICES ASSUME NEW t \in Targets
             PROVE  0 <= reserved'[t] /\ reserved'[t] <= onHand'[t]
  BY DEF StockBounds
<1> DEFINE q == QuantityOf(items, t)
           sold == IF status = "committed" THEN q ELSE 0
<1>1. reserved'[t] = reserved[t] - q /\ onHand'[t] = onHand[t] - sold
  BY DEF SettleItems
<1>2. 0 <= reserved[t] /\ reserved[t] <= onHand[t]
  BY DEF StockBounds
<1>3. reserved[t] \in Int /\ onHand[t] \in Int /\ q \in Nat
  BY QuantityOfNat DEF TypeOK
<1>4. q <= reserved[t]
  BY <1>2, <1>3 DEF QuantityOf, SettleItems
<1>5. 0 <= sold /\ sold <= q /\ sold \in Nat
  BY <1>3
<1> HIDE DEF q, sold
<1> QED
  BY <1>1, <1>2, <1>3, <1>4, <1>5

\* Every step keeps the balances within bounds.
LEMMA StockBoundsNext == TypeOK /\ StockBounds /\ [Next]_vars => StockBounds'
<1> SUFFICES ASSUME TypeOK, StockBounds, [Next]_vars PROVE StockBounds'
  OBVIOUS
<1>1. CASE UNCHANGED <<onHand, reserved>>
  BY <1>1 DEF StockBounds
<1>2. ASSUME NEW d \in Drafts, NEW k \in Keys, ConfirmDraft(k, d)
      PROVE  StockBounds'
  <2>1. draft[d].items \in Items
    BY <1>2, ConfirmDraftRows
  <2> QED
    BY <1>2, <2>1, ReserveItemsInBounds DEF ConfirmDraft
<1>3. ASSUME NEW k \in Keys, NEW o \in Keys, NEW target \in OrderStatus,
             TransitionOrder(k, o, target)
      PROVE  StockBounds'
  <2>0. order[o].items \in Items
    BY <1>3, TransitionOrderRows
  <2>1. CASE UNCHANGED stock
    BY <1>1, <2>1 DEF stock
  <2>2. CASE \E status \in {"released", "committed"} :
               SettleItems(o, order[o].items, status)
    BY <2>0, <2>2, SettleItemsInBounds
  <2> QED
    BY <1>3, <2>1, <2>2, TransitionOrderRows
<1>4. ASSUME NEW t \in Targets, NEW q \in Int, MoveStock(t, q)
      PROVE  StockBounds'
  <2> SUFFICES ASSUME NEW u \in Targets
               PROVE  0 <= reserved'[u] /\ reserved'[u] <= onHand'[u]
    BY DEF StockBounds
  <2>1. MaxStock \in Nat
    BY OrdersAssumption DEF OrdersAssumption
  <2>2. reserved'[u] = reserved[u] /\ reserved[u] \in Int /\ onHand[u] \in Int
    BY <1>4 DEF MoveStock, TypeOK
  <2>3. 0 <= reserved[u] /\ reserved[u] <= onHand[u]
    BY DEF StockBounds
  <2>4. onHand'[u] = onHand[u] \/ (u = t /\ onHand'[u] = onHand[u] + q)
    BY <1>4 DEF MoveStock, TypeOK
  <2>5. reserved[t] <= onHand[t] + q
    BY <1>4, <2>1 DEF MoveStock, TypeOK
  <2> QED
    BY <2>2, <2>3, <2>4, <2>5
<1>5. ASSUME NEW o \in Keys, NEW t \in Targets, NEW status \in {"released", "committed"},
             SettleByHand(o, t, status)
      PROVE  StockBounds'
  <2>1. [u \in {t} |-> order[o].items[t]] \in Items
    BY <1>5, OrderRowFacts, SingleItem DEF SettleByHand, OrderRow
  <2> QED
    BY <1>5, <2>1, SettleItemsInBounds DEF SettleByHand
<1>6. ASSUME NEW d \in Drafts, NEW row \in DraftRow, DraftStep(d, row)
      PROVE  StockBounds'
  BY <1>1, <1>6 DEF DraftStep, stock
<1>7. ASSUME NEW d \in Drafts, ShowDraft(d)
      PROVE  StockBounds'
  BY <1>1, <1>7 DEF ShowDraft, stock
<1>9. CASE UNCHANGED vars
  BY <1>1, <1>9 DEF vars, stock
<1> QED
  BY <1>2, <1>3, <1>4, <1>5, <1>6, <1>7, <1>9, StepKinds

\* No target is ever oversold, whatever order commands, stock movements and
\* manual settlements come in whatever order.
THEOREM StockBoundsInvariant == Spec => []StockBounds
  BY TypeInit, TypeNext, StockBoundsInit, StockBoundsNext, PTL DEF Spec

-----------------------------------------------------------------------------
(* One order per draft.                                                    *)

\* An order's id stands for the key of the command that created it, and the
\* row of that command stays: without this a confirm could overwrite an order.
OrderHasCommand == \A k \in Keys : Exists(k) => ~Fresh(k)

\* 'new' is left within the transaction that creates the order.
NeverNew == \A k \in Keys : Exists(k) => order[k].status # "new"

OrderInv == OneOrderPerDraft /\ OrderHasCommand /\ NeverNew

\* No orders at first.
LEMMA OrderInvInit == Init => OrderInv
  BY DEF Init, OrderInv, OneOrderPerDraft, OrderHasCommand, NeverNew, Exists, NoDraft

\* Steps that leave orders and commands alone and touch no confirmed draft.
LEMMA OrderInvKept ==
  ASSUME TypeOK, OrderInv, UNCHANGED <<order, command>>,
         \A d \in Drafts : draft'[d] = draft[d]
                             \/ (draft[d].status # "confirmed" /\ draft'[d].status # "confirmed")
  PROVE  OrderInv'
<1>1. \A k \in Keys : Exists(k)' <=> Exists(k)
  BY DEF Exists
<1>2. \A k \in Keys : Exists(k) => order[k].draft \in Drafts
  BY OrderRowFacts DEF OrderRow
<1>3. OneOrderPerDraft'
  BY <1>1, <1>2 DEF OrderInv, OneOrderPerDraft
<1>4. OrderHasCommand' /\ NeverNew'
  BY <1>1 DEF OrderInv, OrderHasCommand, NeverNew, Fresh
<1> QED
  BY <1>3, <1>4 DEF OrderInv

\* Confirming a draft adds its first order.
LEMMA OrderInvConfirm ==
  ASSUME TypeOK, OrderInv, NEW k \in Keys, NEW d \in Drafts, ConfirmDraft(k, d)
  PROVE  OrderInv'
<1> DEFINE row == [draft |-> d, status |-> "confirmed", version |-> 2,
                   items |-> draft[d].items]
<1>1. order' = [order EXCEPT ![k] = row] /\ row # NoOrder /\ row.status # "new"
  <2>1. order' = [order EXCEPT ![k] = row] /\ draft[d].items \in Items
    BY ConfirmDraftRows
  <2>2. row \in OrderRow
    BY <2>1 DEF OrderRow, OrderStatus
  <2> QED
    BY <2>1, <2>2, OrdersAssumption DEF OrdersAssumption
<1>2. /\ draft'[d].status = "confirmed" /\ draft'[d].items = draft[d].items
      /\ \A e \in Drafts \ {d} : draft'[e] = draft[e]
  <2>1. draft' = [draft EXCEPT ![d] = [draft[d] EXCEPT !.status = "confirmed"]]
        /\ draft[d] \in DraftRow
    BY ConfirmDraftRows
  <2> QED
    BY <2>1 DEF TypeOK, DraftRow
<1>3. /\ ~Exists(k) /\ draft[d].status # "confirmed"
      /\ \A j \in Keys \ {k} : order'[j] = order[j] /\ (Exists(j)' <=> Exists(j))
      /\ order'[k] = row /\ Exists(k)'
  BY <1>1 DEF ConfirmDraft, OrderInv, OrderHasCommand, Exists, TypeOK
<1>4. \A j \in Keys \ {k} : Exists(j) => order[j].draft \in Drafts \ {d}
  BY <1>3, OrderRowFacts DEF OrderRow, OrderInv, OneOrderPerDraft
<1>5. row.draft = d /\ row.items = draft[d].items
  OBVIOUS
<1>6. \A j \in Keys : Exists(j)' =>
        /\ draft'[order'[j].draft].status = "confirmed"
        /\ draft'[order'[j].draft].items = order'[j].items
        /\ \A i \in Keys : Exists(i)' /\ order'[i].draft = order'[j].draft => i = j
  <2> HIDE DEF row
  <2>1. ASSUME NEW j \in Keys \ {k}, Exists(j)
        PROVE  /\ draft'[order[j].draft].status = "confirmed"
               /\ draft'[order[j].draft].items = order[j].items
    BY <1>2, <1>4, <2>1 DEF OrderInv, OneOrderPerDraft
  <2>2. ASSUME NEW i \in Keys \ {k}, NEW j \in Keys \ {k}, Exists(i), Exists(j),
               order[i].draft = order[j].draft
        PROVE  i = j
    BY <2>2 DEF OrderInv, OneOrderPerDraft
  <2> QED
    BY <1>2, <1>3, <1>4, <1>5, <2>1, <2>2
<1>7. \A e \in Drafts : draft'[e].status = "confirmed" =>
        \E j \in Keys : Exists(j)' /\ order'[j].draft = e
  <2> HIDE DEF row
  <2>1. ASSUME NEW e \in Drafts \ {d}, draft'[e].status = "confirmed"
        PROVE  \E j \in Keys : Exists(j)' /\ order'[j].draft = e
    <3>1. PICK j \in Keys : Exists(j) /\ order[j].draft = e
      BY <1>2, <2>1 DEF OrderInv, OneOrderPerDraft
    <3>2. j # k
      BY <1>3, <3>1
    <3> QED
      BY <1>3, <3>1, <3>2
  <2> QED
    BY <1>3, <1>5, <2>1
<1>8. OneOrderPerDraft'
  BY <1>6, <1>7 DEF OneOrderPerDraft
<1>9. OrderHasCommand'
  <2>1. command'[k] # NoCommand /\ \A j \in Keys \ {k} : command'[j] = command[j]
    <3>1. command' = [command EXCEPT ![k] = [type |-> "confirm", order |-> k,
                        draft |-> d, version |-> shown[d].version]]
      BY DEF ConfirmDraft
    <3>2. [type |-> "confirm", order |-> k, draft |-> d,
           version |-> shown[d].version] \in Command
      BY DEF ConfirmDraft, TypeOK, DraftRow, NoDraft, Command
    <3> QED
      BY <3>1, <3>2, OrdersAssumption DEF OrdersAssumption, TypeOK
  <2> QED
    BY <1>3, <2>1 DEF OrderInv, OrderHasCommand, Fresh
<1>10. NeverNew'
  BY <1>1, <1>3 DEF OrderInv, NeverNew
<1> QED
  BY <1>8, <1>9, <1>10 DEF OrderInv

\* A transition changes nothing that ties an order to its draft.
LEMMA OrderInvTransition ==
  ASSUME TypeOK, OrderInv, NEW k \in Keys, NEW o \in Keys, NEW target \in OrderStatus,
         TransitionOrder(k, o, target)
  PROVE  OrderInv'
<1> DEFINE row == [order[o] EXCEPT !.status = target, !.version = order[o].version + 1]
<1>1. order[o] \in OrderRow /\ order' = [order EXCEPT ![o] = row] /\ Exists(o)
  BY TransitionOrderRows DEF TransitionOrder
<1>2. /\ row.draft = order[o].draft /\ row.items = order[o].items /\ row.status = target
      /\ row # NoOrder
  <2>1. row \in OrderRow /\ row.draft = order[o].draft /\ row.items = order[o].items
        /\ row.status = target
    <3>1. order[o].version + 1 \in Nat
      BY <1>1 DEF OrderRow
    <3> QED
      BY <1>1, <3>1 DEF OrderRow
  <2> QED
    BY <2>1, OrdersAssumption DEF OrdersAssumption
<1> HIDE DEF row
<1>3. \A j \in Keys : /\ Exists(j)' <=> Exists(j)
                      /\ Exists(j) => /\ order'[j].draft = order[j].draft
                                      /\ order'[j].items = order[j].items
  BY <1>1, <1>2 DEF Exists, TypeOK
<1>4. draft' = draft
  BY DEF TransitionOrder
<1>5. OneOrderPerDraft'
  BY <1>3, <1>4 DEF OrderInv, OneOrderPerDraft
<1>6. command'[k] # NoCommand /\ \A j \in Keys \ {k} : command'[j] = command[j]
  <2> DEFINE type == IF target = "cancelled" THEN "cancel" ELSE "transition"
             newCommand == [type |-> type, order |-> o, target |-> target]
  <2>1. command' = [command EXCEPT ![k] = newCommand]
    BY DEF TransitionOrder
  <2>2. type \in {"transition", "cancel"}
    OBVIOUS
  <2>3. newCommand \in [type : {"transition", "cancel"}, order : Keys, target : OrderStatus]
    BY <2>2
  <2>4. newCommand \in Command
    BY <2>3 DEF Command
  <2> HIDE DEF newCommand
  <2> QED
    BY <2>1, <2>4, OrdersAssumption DEF OrdersAssumption, TypeOK
<1>7. OrderHasCommand'
  BY <1>3, <1>6 DEF OrderInv, OrderHasCommand, Fresh
<1>8. target # "new"
  BY <1>1 DEF TransitionOrder, transitions, OrderRow, OrderStatus
<1>9. NeverNew'
  BY <1>1, <1>2, <1>3, <1>8 DEF OrderInv, NeverNew, TypeOK
<1> QED
  BY <1>5, <1>7, <1>9 DEF OrderInv

\* Every step keeps the invariant.
LEMMA OrderInvNext == TypeOK /\ OrderInv /\ [Next]_vars => OrderInv'
<1> SUFFICES ASSUME TypeOK, OrderInv, [Next]_vars PROVE OrderInv'
  OBVIOUS
<1>1. CASE UNCHANGED <<order, command, draft>>
  BY <1>1, OrderInvKept
<1>2. ASSUME NEW d \in Drafts, NEW row \in DraftRow, DraftStep(d, row),
             row.status # "confirmed", draft[d].status # "confirmed"
      PROVE  OrderInv'
  <2>1. \A e \in Drafts : draft'[e] = draft[e]
          \/ (draft[e].status # "confirmed" /\ draft'[e].status # "confirmed")
    BY <1>2 DEF DraftStep, TypeOK
  <2> QED
    BY <1>2, <2>1, OrderInvKept DEF DraftStep
<1>3. ASSUME NEW d \in Drafts, ShowDraft(d)
      PROVE  OrderInv'
  BY <1>1, <1>3 DEF ShowDraft
<1>4. ASSUME NEW d \in Drafts, NEW k \in Keys, ConfirmDraft(k, d)
      PROVE  OrderInv'
  BY <1>4, OrderInvConfirm
<1>5. ASSUME NEW k \in Keys, NEW o \in Keys, NEW target \in OrderStatus,
             TransitionOrder(k, o, target)
      PROVE  OrderInv'
  BY <1>5, OrderInvTransition
<1>7. ASSUME NEW t \in Targets, NEW q \in Int, MoveStock(t, q)
      PROVE  OrderInv'
  BY <1>1, <1>7 DEF MoveStock
<1>8. ASSUME NEW o \in Keys, NEW t \in Targets, NEW status \in {"released", "committed"},
             SettleByHand(o, t, status)
      PROVE  OrderInv'
  BY <1>1, <1>8 DEF SettleByHand
<1>9. CASE UNCHANGED vars
  BY <1>1, <1>9 DEF vars
<1> QED
  BY <1>2, <1>3, <1>4, <1>5, <1>7, <1>8, <1>9, StepKinds

\* OrderInv holds throughout.
LEMMA OrderInvAlways == Spec => []OrderInv
  BY TypeInit, TypeNext, OrderInvInit, OrderInvNext, PTL DEF Spec

\* A draft becomes at most one order and never changes once it has one.
THEOREM OneOrderPerDraftInvariant == Spec => []OneOrderPerDraft
<1>1. OrderInv => OneOrderPerDraft
  BY DEF OrderInv
<1> QED
  BY <1>1, OrderInvAlways, PTL

-----------------------------------------------------------------------------
(* What is ordered is what was approved.                                   *)

\* What the client shows is some past version of the draft, and the contents
\* of a version never change: that is why sending the version back is enough.
ShownVersionFixesItems ==
  \A d \in Drafts :
    /\ shown[d].version <= draft[d].version
    /\ shown[d].version = draft[d].version => shown[d].items = draft[d].items

\* A row's version is a number.
LEMMA VersionNat ==
  ASSUME TypeOK, NEW d \in Drafts
  PROVE  draft[d].version \in Nat /\ shown[d].version \in Nat
<1>1. \A row \in DraftRow \cup {NoDraft} : row.version \in Nat
  BY OrdersAssumption DEF OrdersAssumption, DraftRow, NoDraft, Versions
<1> QED
  BY <1>1 DEF TypeOK

\* At first nothing is shown but the absence of drafts.
LEMMA ShownInit == Init => ShownVersionFixesItems
  BY DEF Init, ShownVersionFixesItems, NoDraft

\* Every draft operation but confirmation takes a new version.
LEMMA ShownNext ==
  TypeOK /\ ShownVersionFixesItems /\ [Next]_vars => ShownVersionFixesItems'
<1> SUFFICES ASSUME TypeOK, ShownVersionFixesItems, [Next]_vars
             PROVE  ShownVersionFixesItems'
  OBVIOUS
<1>1. CASE UNCHANGED <<draft, shown>>
  BY <1>1 DEF ShownVersionFixesItems
<1>2. ASSUME NEW d \in Drafts, NEW row \in DraftRow, DraftStep(d, row),
             row.version = draft[d].version + 1
      PROVE  ShownVersionFixesItems'
  <2> SUFFICES ASSUME NEW e \in Drafts
               PROVE  /\ shown'[e].version <= draft'[e].version
                      /\ shown'[e].version = draft'[e].version =>
                           shown'[e].items = draft'[e].items
    BY DEF ShownVersionFixesItems
  <2>1. shown' = shown /\ draft' = [draft EXCEPT ![d] = row]
    BY <1>2 DEF DraftStep
  <2>2. shown[e].version <= draft[e].version
    BY DEF ShownVersionFixesItems
  <2>3. CASE e = d
    <3>1. draft'[e].version = draft[e].version + 1
      BY <1>2, <2>1, <2>3 DEF TypeOK
    <3> QED
      BY <2>1, <2>2, <3>1, VersionNat
  <2>4. CASE e # d
    BY <2>1, <2>4 DEF TypeOK, ShownVersionFixesItems
  <2> QED
    BY <2>3, <2>4
<1>3. ASSUME NEW d \in Drafts, ShowDraft(d)
      PROVE  ShownVersionFixesItems'
  <2> SUFFICES ASSUME NEW e \in Drafts
               PROVE  /\ shown'[e].version <= draft'[e].version
                      /\ shown'[e].version = draft'[e].version =>
                           shown'[e].items = draft'[e].items
    BY DEF ShownVersionFixesItems
  <2>1. draft' = draft /\ shown'[e] = IF e = d THEN draft[e] ELSE shown[e]
    BY <1>3 DEF ShowDraft, TypeOK
  <2> QED
    BY <2>1, VersionNat DEF ShownVersionFixesItems
<1>4. ASSUME NEW d \in Drafts, NEW k \in Keys, ConfirmDraft(k, d)
      PROVE  ShownVersionFixesItems'
  <2>1. draft[d] \in DraftRow
        /\ draft' = [draft EXCEPT ![d] = [draft[d] EXCEPT !.status = "confirmed"]]
    BY <1>4, ConfirmDraftRows
  <2>2. \A e \in Drafts : draft'[e].version = draft[e].version
                          /\ draft'[e].items = draft[e].items
    BY <2>1 DEF TypeOK, DraftRow
  <2>3. shown' = shown
    BY <1>4 DEF ConfirmDraft
  <2> QED
    BY <2>2, <2>3 DEF ShownVersionFixesItems
<1>5. ASSUME NEW k \in Keys, NEW o \in Keys, NEW target \in OrderStatus,
             TransitionOrder(k, o, target)
      PROVE  ShownVersionFixesItems'
  BY <1>1, <1>5 DEF TransitionOrder
<1>7. ASSUME NEW t \in Targets, NEW q \in Int, MoveStock(t, q)
      PROVE  ShownVersionFixesItems'
  BY <1>1, <1>7 DEF MoveStock
<1>8. ASSUME NEW o \in Keys, NEW t \in Targets, NEW status \in {"released", "committed"},
             SettleByHand(o, t, status)
      PROVE  ShownVersionFixesItems'
  BY <1>1, <1>8 DEF SettleByHand
<1>9. CASE UNCHANGED vars
  BY <1>1, <1>9 DEF vars
<1> QED
  BY <1>2, <1>3, <1>4, <1>5, <1>7, <1>8, <1>9, StepKinds

\* Only a confirm command creates an order.
LEMMA NewOrdersAreConfirmed ==
  ASSUME TypeOK, [Next]_vars, NEW k \in Keys, ~Exists(k), order'[k] # NoOrder
  PROVE  \E d \in Drafts : ConfirmDraft(k, d)
<1>1. CASE UNCHANGED order
  BY <1>1 DEF Exists
<1>2. ASSUME NEW j \in Keys, NEW o \in Keys, NEW target \in OrderStatus,
             TransitionOrder(j, o, target)
      PROVE  FALSE
  <2>1. Exists(o) /\ \A i \in Keys \ {o} : order'[i] = order[i]
    BY <1>2 DEF TransitionOrder, TypeOK
  <2> QED
    BY <2>1 DEF Exists
<1>3. ASSUME NEW d \in Drafts, NEW j \in Keys, ConfirmDraft(j, d)
      PROVE  j = k
  BY <1>3 DEF ConfirmDraft, Exists, TypeOK
<1> QED
  BY <1>1, <1>2, <1>3, StepKinds
     DEF vars, DraftStep, ShowDraft, MoveStock, SettleByHand

\* What is ordered is what was shown when the customer approved.
THEOREM OrderedAsApprovedAlways == Spec => OrderedAsApproved
<1> DEFINE A == \A k \in Keys : (~Exists(k) /\ order'[k] # NoOrder) =>
                  order'[k].items = shown[order'[k].draft].items
<1>1. TypeOK /\ ShownVersionFixesItems /\ [Next]_vars => A
  <2> SUFFICES ASSUME TypeOK, ShownVersionFixesItems, [Next]_vars,
                      NEW k \in Keys, ~Exists(k), order'[k] # NoOrder
               PROVE  order'[k].items = shown[order'[k].draft].items
    OBVIOUS
  <2>1. PICK d \in Drafts : ConfirmDraft(k, d)
    BY NewOrdersAreConfirmed
  <2>2. order'[k].draft = d /\ order'[k].items = draft[d].items
    BY <2>1 DEF ConfirmDraft, TypeOK
  <2>3. draft[d].version = shown[d].version
    BY <2>1 DEF ConfirmDraft
  <2> QED
    BY <2>2, <2>3 DEF ShownVersionFixesItems
<1>2. TypeOK /\ ShownVersionFixesItems /\ [Next]_vars => [A]_vars
  BY <1>1
<1> HIDE DEF A
<1>3. Spec => [][A]_vars
  BY <1>2, TypeInit, TypeNext, ShownInit, ShownNext, PTL DEF Spec
<1> QED
  BY <1>3 DEF A, OrderedAsApproved

-----------------------------------------------------------------------------
(* Orders and the stock they stand on.                                     *)

\* Reservations of the items of an order change as one.
LEMMA ReservationsConfirm ==
  ASSUME TypeOK, OrderInv, NEW o \in Keys, StockFollows(o),
         NEW k \in Keys, NEW d \in Drafts, ConfirmDraft(k, d)
  PROVE  StockFollows(o)'
<1> SUFFICES ASSUME NEW t \in Targets
             PROVE  reservation'[o][t] =
                      IF Exists(o)' /\ t \in DOMAIN order'[o].items
                      THEN HeldAs(order'[o].status) ELSE "none"
  BY DEF StockFollows, HeldAs
<1>0. ReserveItems(k, draft[d].items) /\ ~Exists(k)
  BY DEF ConfirmDraft, OrderInv, OrderHasCommand
<1>1. CASE o # k
  <2>1. order'[o] = order[o] /\ reservation'[o] = reservation[o]
    BY <1>0, <1>1 DEF ConfirmDraft, ReserveItems, TypeOK
  <2> QED
    BY <2>1 DEF StockFollows, Exists
<1>2. CASE o = k
  <2>1. /\ order'[o].items = draft[d].items /\ order'[o].status = "confirmed"
        /\ order'[o] \in OrderRow
    <3>1. order' \in [Keys -> OrderRow \cup {NoOrder}] /\ draft[d].items \in Items
      BY ConfirmDraftRows
    <3>2. order'[o] = [draft |-> d, status |-> "confirmed", version |-> 2,
                       items |-> draft[d].items]
      BY <1>2 DEF ConfirmDraft, TypeOK
    <3>3. order'[o] \in OrderRow
      BY <3>1, <3>2 DEF OrderRow, OrderStatus
    <3> QED
      BY <3>2, <3>3
  <2>2. Exists(o)'
    BY <2>1, OrdersAssumption DEF OrdersAssumption, Exists
  <2>3. reservation[o][t] = "none"
    BY <1>0, <1>2 DEF StockFollows
  <2>4. reservation'[o][t] = IF t \in DOMAIN draft[d].items THEN "active"
                                                           ELSE reservation[o][t]
    BY <1>0, <1>2 DEF ReserveItems, TypeOK
  <2> QED
    BY <2>1, <2>2, <2>3, <2>4 DEF HeldAs
<1> QED
  BY <1>1, <1>2

\* A transition settles exactly when it leaves the pending statuses.
LEMMA ReservationsTransition ==
  ASSUME TypeOK, OrderInv, NEW o \in Keys, StockFollows(o),
         NEW k \in Keys, NEW j \in Keys, NEW target \in OrderStatus,
         TransitionOrder(k, j, target)
  PROVE  StockFollows(o)'
<1> SUFFICES ASSUME NEW t \in Targets
             PROVE  reservation'[o][t] =
                      IF Exists(o)' /\ t \in DOMAIN order'[o].items
                      THEN HeldAs(order'[o].status) ELSE "none"
  BY DEF StockFollows, HeldAs
<1>1. /\ order[j] \in OrderRow /\ Exists(j)
      /\ order' = [order EXCEPT ![j] =
           [order[j] EXCEPT !.status = target, !.version = order[j].version + 1]]
      /\ \/ target = "shipped" /\ SettleItems(j, order[j].items, "committed")
         \/ target = "cancelled" /\ SettleItems(j, order[j].items, "released")
         \/ target \notin {"shipped", "cancelled"} /\ UNCHANGED stock
  BY TransitionOrderRows DEF TransitionOrder
<1>2. CASE o # j
  <2>1. order'[o] = order[o]
    BY <1>1, <1>2 DEF TypeOK
  <2>2. reservation'[o] = reservation[o]
    BY <1>1, <1>2 DEF SettleItems, TypeOK, stock
  <2> QED
    BY <2>1, <2>2 DEF StockFollows, Exists
<1>3. CASE o = j
  <2>1. /\ order'[o].items = order[o].items /\ order'[o].status = target
        /\ order'[o] \in OrderRow
    <3>1. order[o].version + 1 \in Nat
      BY <1>1, <1>3 DEF OrderRow
    <3> QED
      BY <1>1, <1>3, <3>1 DEF OrderRow, TypeOK
  <2>2. Exists(o)' /\ Exists(o)
    BY <1>1, <1>3, <2>1, OrdersAssumption DEF OrdersAssumption, Exists
  <2>3. reservation[o][t] = IF t \in DOMAIN order[o].items
                            THEN HeldAs(order[o].status) ELSE "none"
    BY <2>2 DEF StockFollows
  <2>4. /\ target \in transitions[order[o].status]
        /\ order[o].status \in OrderStatus \ {"new"}
    BY <1>1, <1>3 DEF TransitionOrder, OrderRow, OrderInv, NeverNew
  <2>5. CASE target \in {"shipped", "cancelled"}
    <3>1. reservation'[o][t] = IF t \in DOMAIN order[o].items THEN HeldAs(target)
                                                             ELSE reservation[o][t]
      BY <1>1, <1>3, <2>5 DEF SettleItems, TypeOK, HeldAs
    <3> QED
      BY <2>1, <2>2, <2>3, <3>1
  <2>6. CASE target \notin {"shipped", "cancelled"}
    <3>1. reservation'[o][t] = reservation[o][t]
      BY <1>1, <2>6 DEF stock
    <3>2. HeldAs(target) = HeldAs(order[o].status)
      BY <2>4, <2>6 DEF transitions, OrderStatus, HeldAs
    <3> QED
      BY <2>1, <2>2, <2>3, <3>1, <3>2
  <2> QED
    BY <2>5, <2>6
<1> QED
  BY <1>2, <1>3

\* At first there are neither orders nor reservations.
LEMMA ReservationsInit == Init => ReservationsFollowOrder
  BY DEF Init, ReservationsFollowOrder, StockFollows, Exists

\* As long as nobody settles a reservation of an order by hand, the reservations
\* follow it.
LEMMA ReservationsNext ==
  ASSUME TypeOK, OrderInv, [OrderNext]_vars, NEW o \in Keys, StockFollows(o)
  PROVE  StockFollows(o)'
<1>1. CASE UNCHANGED <<order, reservation>>
  BY <1>1 DEF StockFollows, Exists, HeldAs
<1>2. ASSUME NEW k \in Keys, NEW d \in Drafts, ConfirmDraft(k, d)
      PROVE  StockFollows(o)'
  BY <1>2, ReservationsConfirm
<1>3. ASSUME NEW k \in Keys, NEW j \in Keys, NEW target \in OrderStatus,
             TransitionOrder(k, j, target)
      PROVE  StockFollows(o)'
  BY <1>3, ReservationsTransition
<1>4. \/ UNCHANGED <<order, reservation>>
      \/ \E k \in Keys, d \in Drafts : ConfirmDraft(k, d)
      \/ \E k, j \in Keys, target \in OrderStatus : TransitionOrder(k, j, target)
  BY DEF OrderNext, vars, stock, CreateDraft, UpdateDraft, SubmitDraft, CancelDraft,
         ShowDraft, MoveStock
<1> QED
  BY <1>1, <1>2, <1>3, <1>4

LEMMA ReservationsAlways ==
  TypeOK /\ OrderInv /\ ReservationsFollowOrder /\ [OrderNext]_vars
    => ReservationsFollowOrder'
  BY ReservationsNext DEF ReservationsFollowOrder

\* The desk disturbs the orders it settles a reservation of, and no others.
LEMMA DeskNextKeeps ==
  ASSUME TypeOK, OrderInv, OrdersKeepTheirStock, [OthersAct \/ DeskSettles]_deskVars
  PROVE  OrdersKeepTheirStock'
<1> SUFFICES ASSUME NEW o \in Keys, o \notin byHand'
             PROVE  StockFollows(o)'
  BY DEF OrdersKeepTheirStock
<1>1. CASE UNCHANGED deskVars
  BY <1>1, ReservationsNext DEF OrdersKeepTheirStock, deskVars
<1>2. CASE OthersAct
  BY <1>2, ReservationsNext DEF OthersAct, OrdersKeepTheirStock
<1>3. CASE DeskSettles
  <2>1. PICK j \in Keys, t \in Targets, status \in {"released", "committed"} :
          SettleByHand(j, t, status) /\ byHand' = byHand \cup {j}
    BY <1>3 DEF DeskSettles
  <2>2. o # j /\ o \notin byHand
    BY <2>1
  <2>3. order' = order /\ reservation'[o] = reservation[o]
    BY <2>1, <2>2 DEF SettleByHand, SettleItems, TypeOK
  <2> QED
    BY <2>2, <2>3 DEF OrdersKeepTheirStock, StockFollows, Exists
<1> QED
  BY <1>1, <1>2, <1>3

\* Order commands alone keep every order and its stock in agreement: no item of
\* a pending order is without its reservation, however commands interleave.
THEOREM ReservationsFollowOrderInvariant == OrderSpec => []ReservationsFollowOrder
<1>1. [OrderNext]_vars => [Next]_vars
  BY DEF Next
<1> QED
  BY <1>1, TypeInit, TypeNext, OrderInvInit, OrderInvNext, ReservationsInit,
     ReservationsAlways, PTL DEF OrderSpec

\* Beside the desk, every order it has left alone still agrees with its stock.
THEOREM OrdersKeepTheirStockInvariant == DeskSpec => []OrdersKeepTheirStock
<1>1. DeskInit => Init /\ OrdersKeepTheirStock
  BY ReservationsInit DEF DeskInit, OrdersKeepTheirStock, ReservationsFollowOrder
<1>2. [OthersAct \/ DeskSettles]_deskVars => [Next]_vars
  BY DEF OthersAct, DeskSettles, Next, DeskNext, deskVars
<1>3. TypeOK /\ OrderInv /\ OrdersKeepTheirStock /\ [OthersAct \/ DeskSettles]_deskVars
        => OrdersKeepTheirStock'
  BY DeskNextKeeps
<1> QED
  BY <1>1, <1>2, <1>3, TypeInit, TypeNext, OrderInvInit, OrderInvNext, PTL DEF DeskSpec

\* So a pending order can always be cancelled, which the inventory desk's own
\* release and commit operations take away (the run orders_cancel).
THEOREM CancellationAllowedByOrders == OrderSpec => []CancellationAllowed
<1>1. TypeOK /\ OrderInv /\ ReservationsFollowOrder => CancellationAllowed
  <2> SUFFICES ASSUME TypeOK, OrderInv, ReservationsFollowOrder,
                      NEW o \in Keys, Exists(o),
                      order[o].status \in {"new", "confirmed", "preparing"},
                      NEW t \in DOMAIN order[o].items
               PROVE  reservation[o][t] = "active"
    BY DEF CancellationAllowed
  <2>1. t \in Targets
    BY OrderRowFacts, ItemsFacts DEF OrderRow
  <2>2. order[o].status # "new"
    BY DEF OrderInv, NeverNew
  <2> QED
    BY <2>1, <2>2 DEF ReservationsFollowOrder, StockFollows, HeldAs
<1>2. [OrderNext]_vars => [Next]_vars
  BY DEF Next
<1> QED
  BY <1>1, <1>2, TypeInit, TypeNext, OrderInvInit, OrderInvNext, ReservationsInit,
     ReservationsAlways, PTL DEF OrderSpec
-----------------------------------------------------------------------------
(* The reserved column and the orders that stand behind it.                *)

\* The units of t that order o holds, numbered.
Units(o, q) == {o} \X (1..q)

Holds(o, t) ==
  /\ Exists(o)
  /\ t \in DOMAIN order[o].items
  /\ reservation[o][t] = "active"

HeldUnits(t) ==
  UNION {Units(o, order[o].items[t].quantity) : o \in {k \in Keys : Holds(k, t)}}

LEMMA HeldUnitsMembers ==
  ASSUME NEW t
  PROVE  \A u : u \in HeldUnits(t) <=>
           \E o \in Keys : Holds(o, t) /\ u \in Units(o, order[o].items[t].quantity)
BY DEF HeldUnits

LEMMA UnitsJoin ==
  ASSUME NEW S, IsFiniteSet(S), NEW o, NEW q \in Nat, S \cap Units(o, q) = {}
  PROVE  /\ IsFiniteSet(S \cup Units(o, q))
         /\ Cardinality(S \cup Units(o, q)) = Cardinality(S) + q
<1>1. IsFiniteSet({o}) /\ Cardinality({o}) = 1
  BY FS_Singleton
<1>2. IsFiniteSet(1..q) /\ Cardinality(1..q) = q
  BY FS_Interval
<1>3. IsFiniteSet(Units(o, q)) /\ Cardinality(Units(o, q)) = q
  <2>1. /\ IsFiniteSet({o} \X (1..q))
        /\ Cardinality({o} \X (1..q)) = Cardinality({o}) * Cardinality(1..q)
    BY <1>1, <1>2, FS_Product
  <2> QED
    BY <1>1, <1>2, <2>1 DEF Units
<1>4. Cardinality(S \cap Units(o, q)) = 0 /\ Cardinality(S) \in Nat
  BY FS_EmptySet, FS_CardinalityType
<1>5. /\ IsFiniteSet(S \cup Units(o, q))
      /\ Cardinality(S \cup Units(o, q)) =
           Cardinality(S) + Cardinality(Units(o, q)) - Cardinality(S \cap Units(o, q))
  BY <1>3, FS_Union
<1> QED
  BY <1>3, <1>4, <1>5

LEMMA UnitsLeave ==
  ASSUME NEW S, IsFiniteSet(S), NEW o, NEW q \in Nat, Units(o, q) \subseteq S
  PROVE  /\ IsFiniteSet(S \ Units(o, q))
         /\ Cardinality(S \ Units(o, q)) = Cardinality(S) - q
         /\ q <= Cardinality(S)
<1>1. IsFiniteSet(S \ Units(o, q))
  BY FS_Subset
<1>2. (S \ Units(o, q)) \cap Units(o, q) = {}
  OBVIOUS
<1>3. (S \ Units(o, q)) \cup Units(o, q) = S
  OBVIOUS
<1>4. Cardinality(S) = Cardinality(S \ Units(o, q)) + q
  BY <1>1, <1>2, <1>3, UnitsJoin
<1>5. Cardinality(S) \in Nat /\ Cardinality(S \ Units(o, q)) \in Nat
  BY <1>1, FS_CardinalityType
<1> QED
  BY <1>1, <1>4, <1>5

\* What is reserved of a target is what the items of orders hold of it, unit by
\* unit: a cardinality instead of a sum, which would need induction over data.
ReservedIsHeld ==
  \A t \in Targets :
    /\ IsFiniteSet(HeldUnits(t))
    /\ reserved[t] = Cardinality(HeldUnits(t))

\* A step that keeps the reservations and the items of orders.
LEMMA HeldKept ==
  ASSUME ReservedIsHeld, UNCHANGED <<reserved, reservation>>,
         \A o \in Keys : /\ Exists(o)' <=> Exists(o)
                         /\ Exists(o) => order'[o].items = order[o].items
  PROVE  ReservedIsHeld'
<1> SUFFICES ASSUME NEW t \in Targets
             PROVE  HeldUnits(t)' = HeldUnits(t)
  BY DEF ReservedIsHeld
<1>1. \A o \in Keys : /\ Holds(o, t)' <=> Holds(o, t)
                      /\ Holds(o, t) => order'[o].items[t] = order[o].items[t]
  BY DEF Holds
<1>2. \A u : u \in HeldUnits(t)' <=> u \in HeldUnits(t)
  BY <1>1 DEF HeldUnits
<1> QED
  BY <1>2

\* Confirming a draft adds the units of its items.
LEMMA HeldConfirm ==
  ASSUME TypeOK, OrderInv, ReservedIsHeld,
         NEW k \in Keys, NEW d \in Drafts, ConfirmDraft(k, d)
  PROVE  ReservedIsHeld'
<1>1. PICK items \in Items : items = draft[d].items
  BY ConfirmDraftRows
<1>2. ReserveItems(k, items) /\ ~Exists(k)
  BY <1>1 DEF ConfirmDraft, OrderInv, OrderHasCommand
<1>3. /\ order'[k].items = items
      /\ \A o \in Keys \ {k} : order'[o] = order[o]
      /\ Exists(k)'
  <2>1. order'[k] = [draft |-> d, status |-> "confirmed", version |-> 2, items |-> items]
    BY <1>1 DEF ConfirmDraft, TypeOK
  <2>2. order'[k] \in OrderRow
    BY <2>1 DEF OrderRow, OrderStatus
  <2>3. \A o \in Keys \ {k} : order'[o] = order[o]
    BY DEF ConfirmDraft, TypeOK
  <2> QED
    BY <2>1, <2>2, <2>3, OrdersAssumption DEF OrdersAssumption, Exists
<1> SUFFICES ASSUME NEW t \in Targets
             PROVE  /\ IsFiniteSet(HeldUnits(t)')
                    /\ reserved'[t] = Cardinality(HeldUnits(t)')
  BY DEF ReservedIsHeld
<1>4. IsFiniteSet(HeldUnits(t)) /\ reserved[t] = Cardinality(HeldUnits(t))
  BY DEF ReservedIsHeld
<1>5. /\ reserved'[t] = reserved[t] + QuantityOf(items, t)
      /\ \A o \in Keys \ {k} : reservation'[o] = reservation[o]
      /\ t \in DOMAIN items => reservation'[k][t] = "active"
  BY <1>2 DEF ReserveItems, TypeOK
<1>6. \A o \in Keys : /\ Holds(o, t)' <=> Holds(o, t) \/ (o = k /\ t \in DOMAIN items)
                      /\ Holds(o, t) => o # k
  BY <1>2, <1>3, <1>5 DEF Holds, Exists
<1>7. \A u : u \in HeldUnits(t)' <=>
        \E o \in Keys : Holds(o, t)' /\ u \in Units(o, order'[o].items[t].quantity)
  BY DEF HeldUnits, Units
<1>8. CASE t \in DOMAIN items
  <2>1. PICK q \in Nat : q = items[t].quantity
    BY <1>8, ItemsFacts
  <2>2. \A u : u \in HeldUnits(t)' <=> u \in HeldUnits(t) \/ u \in Units(k, q)
    BY <1>3, <1>6, <1>7, <1>8, <2>1, HeldUnitsMembers
  <2>3. HeldUnits(t)' = HeldUnits(t) \cup Units(k, q)
    BY <2>2
  <2>4. HeldUnits(t) \cap Units(k, q) = {}
    BY <1>6, HeldUnitsMembers DEF Units
  <2>5. reserved'[t] = reserved[t] + q
    BY <1>5, <1>8, <2>1 DEF QuantityOf
  <2> QED
    BY <1>4, <2>3, <2>4, <2>5, UnitsJoin
<1>9. CASE t \notin DOMAIN items
  <2>1. \A u : u \in HeldUnits(t)' <=> u \in HeldUnits(t)
    BY <1>3, <1>6, <1>7, <1>9, HeldUnitsMembers
  <2>2. HeldUnits(t)' = HeldUnits(t)
    BY <2>1
  <2>3. reserved'[t] = reserved[t]
    BY <1>5, <1>9 DEF QuantityOf, TypeOK
  <2> QED
    BY <1>4, <2>2, <2>3
<1> QED
  BY <1>8, <1>9

\* Settling items of an order takes their units away.
LEMMA HeldSettle ==
  ASSUME TypeOK, ReservedIsHeld, NEW o \in Keys, Exists(o),
         NEW items \in Items, NEW status \in {"released", "committed"},
         \A t \in DOMAIN items : t \in DOMAIN order[o].items
                                  /\ items[t].quantity = order[o].items[t].quantity,
         SettleItems(o, items, status),
         \A j \in Keys : /\ Exists(j)' <=> Exists(j)
                         /\ Exists(j) => order'[j].items = order[j].items
  PROVE  ReservedIsHeld'
<1> SUFFICES ASSUME NEW t \in Targets
             PROVE  /\ IsFiniteSet(HeldUnits(t)')
                    /\ reserved'[t] = Cardinality(HeldUnits(t)')
  BY DEF ReservedIsHeld
<1>1. IsFiniteSet(HeldUnits(t)) /\ reserved[t] = Cardinality(HeldUnits(t))
  BY DEF ReservedIsHeld
<1>2. /\ reserved'[t] = reserved[t] - QuantityOf(items, t)
      /\ \A j \in Keys \ {o} : reservation'[j] = reservation[j]
      /\ reservation'[o][t] = IF t \in DOMAIN items THEN status ELSE reservation[o][t]
      /\ t \in DOMAIN items => reservation[o][t] = "active"
  BY DEF SettleItems, TypeOK
<1>3. \A j \in Keys : Holds(j, t)' <=> Holds(j, t) /\ ~(j = o /\ t \in DOMAIN items)
  BY <1>2 DEF Holds
<1>4. \A u : u \in HeldUnits(t)' <=>
        \E j \in Keys : Holds(j, t)' /\ u \in Units(j, order'[j].items[t].quantity)
  BY DEF HeldUnits, Units
<1>5. \A j \in Keys : Holds(j, t) => order'[j].items = order[j].items
  BY DEF Holds
<1>6. CASE t \in DOMAIN items
  <2>1. PICK q \in Nat : q = items[t].quantity
    BY <1>6, ItemsFacts
  <2>2. Holds(o, t) /\ q = order[o].items[t].quantity
    BY <1>2, <1>6, <2>1 DEF Holds
  <2>3. \A u, j, p : u \in Units(j, p) /\ j # o => u \notin Units(o, q)
    BY DEF Units
  <2>4. \A u : u \in HeldUnits(t)' <=> u \in HeldUnits(t) /\ u \notin Units(o, q)
    BY <1>3, <1>4, <1>5, <1>6, <2>2, <2>3, HeldUnitsMembers
  <2>5. HeldUnits(t)' = HeldUnits(t) \ Units(o, q)
    BY <2>4
  <2>6. Units(o, q) \subseteq HeldUnits(t)
    BY <2>2, HeldUnitsMembers
  <2>7. reserved'[t] = reserved[t] - q
    BY <1>2, <1>6, <2>1 DEF QuantityOf
  <2> QED
    BY <1>1, <2>5, <2>6, <2>7, UnitsLeave
<1>7. CASE t \notin DOMAIN items
  <2>1. \A u : u \in HeldUnits(t)' <=> u \in HeldUnits(t)
    BY <1>3, <1>4, <1>5, <1>7, HeldUnitsMembers
  <2>2. HeldUnits(t)' = HeldUnits(t)
    BY <2>1
  <2>3. reserved'[t] = reserved[t]
    BY <1>2, <1>7 DEF QuantityOf, TypeOK
  <2> QED
    BY <1>1, <2>2, <2>3
<1> QED
  BY <1>6, <1>7

LEMMA HeldNext == TypeOK /\ OrderInv /\ ReservedIsHeld /\ [Next]_vars => ReservedIsHeld'
<1> SUFFICES ASSUME TypeOK, OrderInv, ReservedIsHeld, [Next]_vars
             PROVE  ReservedIsHeld'
  OBVIOUS
<1>1. CASE UNCHANGED <<order, reserved, reservation>>
  BY <1>1, HeldKept DEF Exists
<1>2. ASSUME NEW d \in Drafts, NEW k \in Keys, ConfirmDraft(k, d)
      PROVE  ReservedIsHeld'
  BY <1>2, HeldConfirm
<1>3. ASSUME NEW k \in Keys, NEW o \in Keys, NEW target \in OrderStatus,
             TransitionOrder(k, o, target)
      PROVE  ReservedIsHeld'
  <2>1. \A j \in Keys : /\ Exists(j)' <=> Exists(j)
                        /\ Exists(j) => order'[j].items = order[j].items
    <3>1. /\ order[o] \in OrderRow /\ Exists(o)
          /\ order' = [order EXCEPT ![o] =
               [order[o] EXCEPT !.status = target, !.version = order[o].version + 1]]
          /\ order' \in [Keys -> OrderRow \cup {NoOrder}]
      BY <1>3, TransitionOrderRows DEF TransitionOrder
    <3>2. /\ order'[o].items = order[o].items /\ order'[o] \in OrderRow
          /\ \A j \in Keys \ {o} : order'[j] = order[j]
      <4>1. order[o].version + 1 \in Nat
        BY <3>1 DEF OrderRow
      <4> QED
        BY <3>1, <4>1 DEF OrderRow, TypeOK
    <3> QED
      BY <3>1, <3>2, OrdersAssumption DEF OrdersAssumption, Exists
  <2>2. PICK items \in Items : items = order[o].items
    BY <1>3, TransitionOrderRows
  <2>3. CASE UNCHANGED stock
    BY <2>1, <2>3, HeldKept DEF stock
  <2>4. CASE \E status \in {"released", "committed"} : SettleItems(o, items, status)
    <3>1. PICK status \in {"released", "committed"} : SettleItems(o, items, status)
      BY <2>4
    <3>2. Exists(o)
      BY <1>3 DEF TransitionOrder
    <3>3. \A t \in DOMAIN items : t \in DOMAIN order[o].items
                                 /\ items[t].quantity = order[o].items[t].quantity
      BY <2>2
    <3> QED
      BY <2>1, <3>1, <3>2, <3>3, HeldSettle
  <2> QED
    BY <1>3, <2>2, <2>3, <2>4, TransitionOrderRows
<1>4. ASSUME NEW o \in Keys, NEW t \in Targets, NEW status \in {"released", "committed"},
             SettleByHand(o, t, status)
      PROVE  ReservedIsHeld'
  <2>1. PICK items \in Items : items = [u \in {t} |-> order[o].items[t]]
    BY <1>4, OrderRowFacts, SingleItem DEF SettleByHand, OrderRow
  <2>2. /\ Exists(o) /\ t \in DOMAIN order[o].items /\ order' = order
        /\ SettleItems(o, items, status)
    BY <1>4, <2>1 DEF SettleByHand
  <2> QED
    BY <2>1, <2>2, HeldSettle DEF Exists
<1>5. ASSUME NEW d \in Drafts, NEW row \in DraftRow, DraftStep(d, row)
      PROVE  ReservedIsHeld'
  BY <1>1, <1>5 DEF DraftStep, stock
<1>6. ASSUME NEW d \in Drafts, ShowDraft(d)
      PROVE  ReservedIsHeld'
  BY <1>1, <1>6 DEF ShowDraft, stock
<1>8. ASSUME NEW t \in Targets, NEW q \in Int, MoveStock(t, q)
      PROVE  ReservedIsHeld'
  BY <1>1, <1>8 DEF MoveStock
<1>9. CASE UNCHANGED vars
  BY <1>1, <1>9 DEF vars, stock
<1> QED
  BY <1>2, <1>3, <1>4, <1>5, <1>6, <1>8, <1>9, StepKinds

LEMMA HeldInit == Init => ReservedIsHeld
<1> SUFFICES ASSUME Init, NEW t \in Targets
             PROVE  HeldUnits(t) = {} /\ reserved[t] = 0
  BY FS_EmptySet DEF ReservedIsHeld
<1> QED
  BY HeldUnitsMembers DEF Init, Holds, Exists

\* What is reserved of a target is always exactly what the items of orders hold
\* of it, beside the inventory desk's settlements too: no order command and no
\* desk operation leaves stock reserved for nobody, or held twice.
THEOREM ReservedIsHeldInvariant == Spec => []ReservedIsHeld
  BY TypeInit, TypeNext, OrderInvInit, OrderInvNext, HeldInit, HeldNext, PTL DEF Spec

\* The balances bear shipping an order and cancelling it: every check that
\* commitInventoryReservation and releaseInventoryReservation make of any of
\* its items would pass.
CanSettle(o) ==
  \A t \in DOMAIN order[o].items :
    LET q == order[o].items[t].quantity
    IN  /\ reservation[o][t] = "active"
        /\ reserved[t] >= q
        /\ \A sold \in {0, q} : onHand[t] - sold >= reserved[t] - q

Pending(o) == Exists(o) /\ order[o].status \in {"new", "confirmed", "preparing"}

LEMMA PendingCanSettle ==
  ASSUME TypeOK, OrderInv, StockBounds, ReservedIsHeld,
         NEW o \in Keys, StockFollows(o), Pending(o)
  PROVE  CanSettle(o)
<1> SUFFICES ASSUME NEW t \in DOMAIN order[o].items
             PROVE  LET q == order[o].items[t].quantity
                    IN  /\ reservation[o][t] = "active"
                        /\ reserved[t] >= q
                        /\ \A sold \in {0, q} : onHand[t] - sold >= reserved[t] - q
  BY DEF CanSettle
<1>1. PICK q \in Nat : t \in Targets /\ q = order[o].items[t].quantity
  BY OrderRowFacts, ItemsFacts DEF OrderRow, Pending
<1>2. reservation[o][t] = "active"
  BY <1>1 DEF Pending, StockFollows, HeldAs, OrderInv, NeverNew
<1>3. Units(o, q) \subseteq HeldUnits(t)
  BY <1>1, <1>2, HeldUnitsMembers DEF Pending, Holds
<1>4. q <= reserved[t]
  BY <1>1, <1>3, UnitsLeave DEF ReservedIsHeld
<1>5. reserved[t] <= onHand[t] /\ reserved[t] \in Int /\ onHand[t] \in Int
  BY <1>1 DEF StockBounds, TypeOK
<1> QED
  BY <1>1, <1>2, <1>4, <1>5

\* Stock never stands in the way of a pending order that the inventory desk has
\* left alone: it can be shipped and it can be cancelled, whatever was ordered,
\* received, sold and settled around it.
THEOREM PendingOrdersCanSettle ==
  DeskSpec => [](\A o \in Keys \ byHand : Pending(o) => CanSettle(o))
<1> DEFINE Settles == \A o \in Keys \ byHand : Pending(o) => CanSettle(o)
<1>1. DeskInit => Init
  BY DEF DeskInit
<1>2. [OthersAct \/ DeskSettles]_deskVars => [Next]_vars
  BY DEF OthersAct, DeskSettles, Next, DeskNext, deskVars
<1>3. TypeOK /\ OrderInv /\ StockBounds /\ ReservedIsHeld /\ OrdersKeepTheirStock => Settles
  BY PendingCanSettle DEF OrdersKeepTheirStock
<1> HIDE DEF Settles
<1>4. DeskSpec => []Settles
  BY <1>1, <1>2, <1>3, TypeInit, TypeNext, OrderInvInit, OrderInvNext, StockBoundsInit,
     StockBoundsNext, HeldInit, HeldNext, OrdersKeepTheirStockInvariant, PTL DEF DeskSpec
<1> QED
  BY <1>4 DEF Settles
-----------------------------------------------------------------------------
(* The contract of the order service.                                      *)

ContractStep == Contract!Next \/ UNCHANGED <<DraftView, PlacedOrders>>

LEMMA ViewOf ==
  ASSUME NEW d \in Drafts
  PROVE  /\ DraftView[d].status = draft[d].status
         /\ DraftView[d].version = draft[d].version
         /\ DraftView[d].content = draft[d].items
         /\ DraftView[d] = [status |-> draft[d].status, version |-> draft[d].version,
                            content |-> draft[d].items]
BY DEF DraftView

\* A draft row that changes is one entry of the view that changes.
LEMMA ViewChanges ==
  ASSUME TypeOK, NEW d \in Drafts, NEW row, draft' = [draft EXCEPT ![d] = row]
  PROVE  DraftView' = [DraftView EXCEPT ![d] =
           [status |-> row.status, version |-> row.version, content |-> row.items]]
<1>1. draft'[d] = row /\ \A e \in Drafts \ {d} : draft'[e] = draft[e]
  BY DEF TypeOK
<1> QED
  BY <1>1 DEF DraftView

LEMMA ServiceIdle == UNCHANGED <<draft, order>> => UNCHANGED <<DraftView, PlacedOrders>>
BY DEF DraftView, PlacedOrders, Exists

LEMMA CreateStep ==
  ASSUME TypeOK, NEW d \in Drafts, NEW items \in Items, NEW complete \in BOOLEAN,
         CreateDraft(d, items, complete)
  PROVE  Contract!Next
<1> PICK row : row = [status |-> "draft", version |-> 1, items |-> items,
                      complete |-> complete]
  OBVIOUS
<1>1. draft' = [draft EXCEPT ![d] = row] /\ UNCHANGED order
  BY DEF CreateDraft
<1>2. DraftView' = [DraftView EXCEPT ![d] =
        [status |-> "draft", version |-> 1, content |-> items]]
  BY <1>1, ViewChanges
<1>3. DraftView[d].status = "absent"
  BY ViewOf DEF CreateDraft
<1>4. PlacedOrders' = PlacedOrders
  BY <1>1 DEF PlacedOrders, Exists
<1>5. Contract!Create(d, items)
  BY <1>2, <1>3, <1>4 DEF Contract!Create
<1> QED
  BY <1>5 DEF Contract!Next

Open(d) == draft[d].status \in {"draft", "awaiting_confirmation"}

\* The next version of an open draft.
LEMMA ReviseStep ==
  ASSUME TypeOK, NEW d \in Drafts, NEW row, Open(d),
         draft' = [draft EXCEPT ![d] = row], UNCHANGED order,
         row.version = draft[d].version + 1
  PROVE  Contract!Revise(d, row.status, row.items)
<1>1. DraftView' = [DraftView EXCEPT ![d] =
        [status |-> row.status, version |-> row.version, content |-> row.items]]
  BY ViewChanges
<1>2. DraftView[d].version = draft[d].version /\ DraftView[d].status = draft[d].status
  BY ViewOf
<1>3. PlacedOrders' = PlacedOrders
  BY DEF PlacedOrders, Exists
<1> QED
  BY <1>1, <1>2, <1>3 DEF Contract!Revise, Open

LEMMA UpdateStep ==
  ASSUME TypeOK, NEW d \in Drafts, NEW version, NEW items \in Items,
         NEW complete \in BOOLEAN, UpdateDraft(d, version, items, complete)
  PROVE  Contract!Next
<1> PICK row : row = [status |-> "draft", version |-> version + 1, items |-> items,
                      complete |-> complete]
  OBVIOUS
<1>1. /\ draft' = [draft EXCEPT ![d] = row] /\ UNCHANGED order
      /\ Open(d)
      /\ row.version = draft[d].version + 1
      /\ row.status = "draft" /\ row.items = items
  BY DEF UpdateDraft, Open
<1>2. Contract!Revise(d, row.status, row.items)
  BY <1>1, ReviseStep
<1>3. Contract!Edit(d, items)
  BY <1>1, <1>2 DEF Contract!Edit
<1> QED
  BY <1>3 DEF Contract!Next

LEMMA SubmitStep ==
  ASSUME TypeOK, NEW d \in Drafts, NEW version, SubmitDraft(d, version)
  PROVE  Contract!Next
<1> PICK row : row = [draft[d] EXCEPT !.status = "awaiting_confirmation",
                                      !.version = version + 1]
  OBVIOUS
<1>1. /\ draft' = [draft EXCEPT ![d] = row] /\ UNCHANGED order
      /\ Open(d) /\ draft[d].status = "draft" /\ draft[d].version = version
  BY DEF SubmitDraft, Open
<1>2. draft[d] \in DraftRow
  BY <1>1, DraftRowFacts DEF Open
<1>3. /\ row.status = "awaiting_confirmation" /\ row.version = draft[d].version + 1
      /\ row.items = DraftView[d].content /\ DraftView[d].status = "draft"
  BY <1>1, <1>2, ViewOf DEF DraftRow
<1>4. Contract!Revise(d, row.status, row.items)
  BY <1>1, <1>3, ReviseStep
<1>5. Contract!Submit(d)
  BY <1>3, <1>4 DEF Contract!Submit
<1> QED
  BY <1>5 DEF Contract!Next

LEMMA CancelStep ==
  ASSUME TypeOK, NEW d \in Drafts, NEW version, CancelDraft(d, version)
  PROVE  Contract!Next
<1> PICK row : row = [draft[d] EXCEPT !.status = "cancelled", !.version = version + 1]
  OBVIOUS
<1>1. /\ draft' = [draft EXCEPT ![d] = row] /\ UNCHANGED order
      /\ Open(d)
      /\ draft[d].version = version
  BY DEF CancelDraft, Open
<1>2. draft[d] \in DraftRow
  BY <1>1, DraftRowFacts DEF Open
<1>3. /\ row.status = "cancelled" /\ row.version = draft[d].version + 1
      /\ row.items = DraftView[d].content
  BY <1>1, <1>2, ViewOf DEF DraftRow
<1>4. Contract!Revise(d, row.status, row.items)
  BY <1>1, <1>3, ReviseStep
<1>5. Contract!Cancel(d)
  BY <1>3, <1>4 DEF Contract!Cancel
<1> QED
  BY <1>5 DEF Contract!Next

\* That the key has made no order yet follows from OrderHasCommand.
LEMMA PlaceStep ==
  ASSUME TypeOK, OrderInv, NEW d \in Drafts, NEW k \in Keys, ConfirmDraft(k, d)
  PROVE  Contract!Next
<1> PICK new : new = [draft |-> d, status |-> "confirmed", version |-> 2,
                      items |-> draft[d].items]
  OBVIOUS
<1>1. /\ draft[d] \in DraftRow /\ draft[d].items \in Items
      /\ order' = [order EXCEPT ![k] = new]
      /\ draft' = [draft EXCEPT ![d] = [draft[d] EXCEPT !.status = "confirmed"]]
  BY ConfirmDraftRows
<1>2. draft[d].status = "awaiting_confirmation" /\ ~Exists(k)
  BY DEF ConfirmDraft, OrderInv, OrderHasCommand
<1>3. DraftView' = [DraftView EXCEPT ![d].status = "confirmed"]
  <2> PICK row : row = [draft[d] EXCEPT !.status = "confirmed"]
    OBVIOUS
  <2>1. DraftView' = [DraftView EXCEPT ![d] =
          [status |-> row.status, version |-> row.version, content |-> row.items]]
    BY <1>1, ViewChanges
  <2>2. /\ row.status = "confirmed" /\ row.version = draft[d].version
        /\ row.items = draft[d].items
    BY <1>1 DEF DraftRow
  <2>3. [DraftView[d] EXCEPT !.status = "confirmed"] =
          [status |-> row.status, version |-> row.version, content |-> row.items]
    <3> PICK was, version, content :
          was = DraftView[d] /\ version = row.version /\ content = row.items
      OBVIOUS
    <3>1. was = [status |-> was.status, version |-> version, content |-> content]
      BY <2>2, ViewOf
    <3>2. [was EXCEPT !.status = "confirmed"] =
            [status |-> "confirmed", version |-> version, content |-> content]
      BY <3>1
    <3> QED
      BY <2>2, <3>2
  <2> QED
    BY <2>1, <2>3
<1>4. new # NoOrder /\ new.draft = d /\ new.items = DraftView[d].content
  <2>1. new \in OrderRow
    BY <1>1 DEF OrderRow, OrderStatus
  <2> QED
    BY <2>1, ViewOf, OrdersAssumption
<1>5. order'[k] = new /\ \A j \in Keys \ {k} : order'[j] = order[j]
  BY <1>1 DEF TypeOK
<1>6. PlacedOrders' =
        PlacedOrders \cup {[key |-> k, draft |-> d, content |-> DraftView[d].content]}
  BY <1>2, <1>4, <1>5 DEF PlacedOrders, Exists
<1>7. \A p \in PlacedOrders : p.key # k
  BY <1>2 DEF PlacedOrders
<1>8. Contract!Place(k, d)
  BY <1>2, <1>3, <1>6, <1>7, ViewOf DEF Contract!Place
<1> QED
  BY <1>8 DEF Contract!Next

\* An order that moves on is still for the same draft and the same items.
LEMMA TransitionStep ==
  ASSUME TypeOK, NEW k \in Keys, NEW o \in Keys, NEW target \in OrderStatus,
         TransitionOrder(k, o, target)
  PROVE  UNCHANGED <<DraftView, PlacedOrders>>
<1> PICK row : row = [order[o] EXCEPT !.status = target, !.version = order[o].version + 1]
  OBVIOUS
<1>1. order[o] \in OrderRow /\ order' = [order EXCEPT ![o] = row] /\ Exists(o)
      /\ UNCHANGED draft
  BY TransitionOrderRows DEF TransitionOrder
<1>2. row \in OrderRow /\ row.draft = order[o].draft /\ row.items = order[o].items
  <2> PICK s : s = order[o]
    OBVIOUS
  <2>1. s \in OrderRow /\ row = [s EXCEPT !.status = target, !.version = s.version + 1]
    BY <1>1
  <2>2. s.version + 1 \in Nat
    BY <2>1 DEF OrderRow
  <2> QED
    BY <2>1, <2>2 DEF OrderRow
<1>3. row # NoOrder
  BY <1>2, OrdersAssumption
<1>4. \A j \in Keys : /\ order'[j] # NoOrder <=> order[j] # NoOrder
                      /\ order'[j].draft = order[j].draft
                      /\ order'[j].items = order[j].items
  BY <1>1, <1>2, <1>3 DEF TypeOK, Exists
<1>5. PlacedOrders' = PlacedOrders
  BY <1>4 DEF PlacedOrders, Exists
<1> QED
  BY <1>1, <1>5 DEF DraftView

\* Drafts and orders are those of OrderContract, whatever happens to stock
\* and reservations around them, and however orders move on.
THEOREM OrdersImplementContract == Spec => ImplementsOrderContract
<1>1. Init => Contract!Init
  <2> SUFFICES ASSUME Init PROVE Contract!Init
    OBVIOUS
  <2>1. DraftView = [d \in Drafts |-> [status |-> "absent", version |-> 0,
                                       content |-> <<>>]]
    BY DEF Init, DraftView, NoDraft
  <2>2. PlacedOrders = {}
    BY DEF Init, PlacedOrders, Exists
  <2> QED
    BY <2>1, <2>2 DEF Contract!Init
<1>2. TypeOK /\ OrderInv /\ [Next]_vars => [Contract!Next]_(Contract!vars)
  <2> SUFFICES ASSUME TypeOK, OrderInv, [Next]_vars PROVE ContractStep
    BY DEF ContractStep, Contract!vars
  <2>1. CASE UNCHANGED <<draft, order>>
    BY <2>1, ServiceIdle DEF ContractStep
  <2>2. ASSUME NEW d \in Drafts, NEW items \in Items, NEW complete \in BOOLEAN,
               NEW version \in Versions, UpdateDraft(d, version, items, complete)
        PROVE  ContractStep
    BY <2>2, UpdateStep DEF ContractStep
  <2>3. ASSUME NEW k \in Keys, NEW o \in Keys, NEW target \in OrderStatus,
               TransitionOrder(k, o, target)
        PROVE  ContractStep
    BY <2>3, TransitionStep DEF ContractStep
  <2>4. ASSUME NEW d \in Drafts, NEW k \in Keys, ConfirmDraft(k, d)
        PROVE  ContractStep
    BY <2>4, PlaceStep DEF ContractStep
  <2>5. ASSUME NEW d \in Drafts, NEW version \in Versions,
               SubmitDraft(d, version) \/ CancelDraft(d, version)
        PROVE  ContractStep
    BY <2>5, SubmitStep, CancelStep DEF ContractStep
  <2>6. ASSUME NEW d \in Drafts, NEW items \in Items, NEW complete \in BOOLEAN,
               CreateDraft(d, items, complete)
        PROVE  ContractStep
    BY <2>6, CreateStep DEF ContractStep
  <2>7. CASE OrderNext
    BY <2>1, <2>2, <2>3, <2>4, <2>5, <2>6, <2>7 DEF OrderNext, ShowDraft, MoveStock
  <2>8. CASE DeskNext \/ UNCHANGED vars
    BY <2>1, <2>8 DEF DeskNext, SettleByHand, vars
  <2> QED
    BY <2>7, <2>8 DEF Next
<1> QED
  BY <1>1, <1>2, TypeInit, TypeNext, OrderInvInit, OrderInvNext, PTL
     DEF Spec, ImplementsOrderContract, Contract!Spec
=============================================================================
