--------------------------- MODULE InventoryProofs ---------------------------
(***************************************************************************)
(* Proofs about Inventory, for every value of its constants.               *)
(*                                                                         *)
(* Every command ends in PostMovement, so the argument has two layers: the *)
(* lemma StepPostsOneMovement reduces a step to one fresh, in-bounds       *)
(* PostMovement, and the invariants that speak of balances and ledgers     *)
(* follow from that alone.                                                 *)
(***************************************************************************)
EXTENDS Inventory, SequenceTheorems, FiniteSetTheorems, TLAPS

-----------------------------------------------------------------------------
(* Type correctness.                                                       *)

\* PostMovement keeps the balance and ledger columns typed.
LEMMA PostMovementTyped ==
  ASSUME TypeOK, NEW k \in Keys, NEW t \in Targets, NEW type \in MovementType,
         NEW onHandDelta \in Int, NEW reservedDelta \in Int,
         NEW r \in Keys \cup {NoReservation},
         PostMovement(k, t, type, onHandDelta, reservedDelta, r)
  PROVE  /\ balance' \in [Targets -> Balance]
         /\ movements' \in [Targets -> Seq(Movement)]
<1> DEFINE m == [key |-> k, type |-> type,
                 onHandDelta |-> onHandDelta, reservedDelta |-> reservedDelta,
                 onHandAfter |-> balance[t].onHand + onHandDelta,
                 reservedAfter |-> balance[t].reserved + reservedDelta,
                 reservation |-> r]
<1>1. balance[t] \in Balance
  BY DEF TypeOK
<1>2. m \in Movement
  BY <1>1 DEF Movement, Balance
<1>3. movements[t] \in Seq(Movement)
  BY DEF TypeOK
<1>4. Append(movements[t], m) \in Seq(Movement)
  BY <1>2, <1>3
<1>5. movements' = [movements EXCEPT ![t] = Append(movements[t], m)]
  BY DEF PostMovement
<1>6. movements' \in [Targets -> Seq(Movement)]
  BY <1>4, <1>5 DEF TypeOK
<1>7. balance' \in [Targets -> Balance]
  BY <1>1 DEF TypeOK, PostMovement, Balance
<1> QED
  BY <1>6, <1>7

\* What a successful command does: it posts one movement under a key that was
\* free, and the balance it leaves is within bounds if the one it found was.
Posts(k, t, type, onHandDelta, reservedDelta, r) ==
  /\ ~KeyUsed(k)
  /\ PostMovement(k, t, type, onHandDelta, reservedDelta, r)
  /\ balance[t].reserved + reservedDelta <= balance[t].onHand + onHandDelta
  /\ StockBounds => 0 <= balance[t].reserved + reservedDelta

\* Quantities are positive integers (assertPositiveInteger).
LEMMA PositiveQuantities == \A q \in Quantities : q \in Nat /\ q > 0 /\ -q \in Int
  BY InventoryAssumption DEF InventoryAssumption

\* The commands come in three kinds.
LEMMA CommandKinds ==
  ASSUME Next
  PROVE  \E k \in Keys :
           \/ \E t \in Targets, type \in MovementType, d \in Int :
                ApplySimpleMovement(k, type, t, d)
           \/ \E t \in Targets, q \in Quantities : ReserveInventory(k, t, q)
           \/ \E r \in Keys, s \in {"released", "committed"} :
                TransitionReservation(k, r, s)
<1>1. PICK k \in Keys :
        \/ \E t \in Targets, q \in Quantities :
             \/ ReceiveInventory(k, t, q)
             \/ ReturnInventory(k, t, q)
             \/ SellInventory(k, t, q)
             \/ AdjustInventory(k, t, q)
             \/ ReserveInventory(k, t, q)
        \/ \E r \in Keys :
             \/ ReleaseInventoryReservation(k, r)
             \/ CommitInventoryReservation(k, r)
  BY DEF Next
<1>2. ASSUME NEW t \in Targets, NEW q \in Quantities,
             \/ ReceiveInventory(k, t, q)
             \/ ReturnInventory(k, t, q)
             \/ SellInventory(k, t, q)
             \/ AdjustInventory(k, t, q)
      PROVE  \E type \in MovementType, d \in Int : ApplySimpleMovement(k, type, t, d)
  <2>1. \E type \in MovementType, d \in {q, -q} : ApplySimpleMovement(k, type, t, d)
    BY <1>2 DEF ReceiveInventory, ReturnInventory, SellInventory, AdjustInventory,
                MovementType
  <2>2. q \in Int /\ -q \in Int
    BY PositiveQuantities
  <2> QED
    BY <2>1, <2>2
<1>3. ASSUME NEW r \in Keys,
             \/ ReleaseInventoryReservation(k, r)
             \/ CommitInventoryReservation(k, r)
      PROVE  \E s \in {"released", "committed"} : TransitionReservation(k, r, s)
  BY <1>3 DEF ReleaseInventoryReservation, CommitInventoryReservation
<1> QED
  BY <1>1, <1>2, <1>3

LEMMA StepPostsOneMovement ==
  ASSUME TypeOK, Next
  PROVE  \E k \in Keys, t \in Targets, type \in MovementType,
            onHandDelta \in Int, reservedDelta \in Int,
            r \in Keys \cup {NoReservation} :
           Posts(k, t, type, onHandDelta, reservedDelta, r)
<1>1. ASSUME NEW k \in Keys, NEW t \in Targets, NEW type \in MovementType,
             NEW d \in Int, ApplySimpleMovement(k, type, t, d)
      PROVE  Posts(k, t, type, d, 0, NoReservation)
  <2>1. balance[t] \in Balance
    BY DEF TypeOK
  <2> QED
    BY <1>1, <2>1 DEF ApplySimpleMovement, Posts, StockBounds, Balance
<1>2. ASSUME NEW k \in Keys, NEW t \in Targets, NEW q \in Quantities,
             ReserveInventory(k, t, q)
      PROVE  Posts(k, t, "reserve", 0, q, k)
  <2>1. balance[t] \in Balance
    BY DEF TypeOK
  <2>2. q \in Nat
    BY PositiveQuantities
  <2>3. StockBounds => 0 <= balance[t].reserved + q
    BY <2>1, <2>2 DEF StockBounds, Balance
  <2>4. balance[t].reserved + q <= balance[t].onHand + 0
    BY <1>2, <2>1, <2>2 DEF ReserveInventory, Available, Balance
  <2> QED
    BY <1>2, <2>3, <2>4 DEF ReserveInventory, Posts
<1>3. ASSUME NEW k \in Keys, NEW r \in Keys, NEW s \in {"released", "committed"},
             TransitionReservation(k, r, s)
      PROVE  \E t \in Targets, type \in MovementType, d \in Int, e \in Int :
               Posts(k, t, type, d, e, r)
  <2> DEFINE t == reservation[r].target
             q == reservation[r].quantity
             sold == IF s = "committed" THEN q ELSE 0
             type == IF s = "committed" THEN "sell" ELSE "release"
  <2>1. reservation[r] \in ReservationRow
    BY <1>3 DEF TransitionReservation, Reserved, TypeOK
  <2>2. t \in Targets /\ q \in Nat /\ sold \in Int /\ type \in MovementType
    BY <2>1, PositiveQuantities DEF ReservationRow, MovementType
  <2>3. balance[t] \in Balance
    BY <2>2 DEF TypeOK
  <2>4. Posts(k, t, type, -sold, -q, r)
    BY <1>3, <2>2, <2>3 DEF TransitionReservation, Posts, Balance
  <2> QED
    BY <2>2, <2>4
<1> QED
  <2>1. \A q \in Quantities : q \in Int
    BY PositiveQuantities
  <2>2. "reserve" \in MovementType /\ 0 \in Int
    BY DEF MovementType
  <2> QED
    BY <1>1, <1>2, <1>3, <2>1, <2>2, CommandKinds

\* The reservation table keeps its type.
LEMMA ReservationTyped ==
  ASSUME TypeOK, Next
  PROVE  reservation' \in [Keys -> ReservationRow \cup {NoReservation}]
<1>1. ASSUME NEW k \in Keys, NEW t \in Targets, NEW q \in Quantities,
             ReserveInventory(k, t, q)
      PROVE  reservation' \in [Keys -> ReservationRow \cup {NoReservation}]
  <2>1. [target |-> t, quantity |-> q, status |-> "active"] \in ReservationRow
    BY DEF ReservationRow, ReservationStatus
  <2> QED
    BY <1>1, <2>1 DEF ReserveInventory, TypeOK
<1>2. ASSUME NEW k \in Keys, NEW r \in Keys, NEW s \in {"released", "committed"},
             TransitionReservation(k, r, s)
      PROVE  reservation' \in [Keys -> ReservationRow \cup {NoReservation}]
  <2>1. reservation[r] \in ReservationRow
    BY <1>2 DEF TransitionReservation, Reserved, TypeOK
  <2>2. [reservation[r] EXCEPT !.status = s] \in ReservationRow
    BY <2>1 DEF ReservationRow, ReservationStatus
  <2>3. reservation' =
          [reservation EXCEPT ![r] = [reservation[r] EXCEPT !.status = s]]
    BY <1>2 DEF TransitionReservation
  <2> QED
    BY <2>2, <2>3 DEF TypeOK
<1> QED
  BY <1>1, <1>2, CommandKinds DEF ApplySimpleMovement, TypeOK

\* Every reachable state is well typed.
THEOREM TypeCorrect == Spec => []TypeOK
<1>1. Init => TypeOK
  BY DEF Init, TypeOK, Balance
<1>2. TypeOK /\ [Next]_vars => TypeOK'
  <2>1. ASSUME TypeOK, Next
        PROVE  TypeOK'
    <3>1. PICK k \in Keys, t \in Targets, type \in MovementType,
               onHandDelta \in Int, reservedDelta \in Int,
               r \in Keys \cup {NoReservation} :
            Posts(k, t, type, onHandDelta, reservedDelta, r)
      BY <2>1, StepPostsOneMovement
    <3>2. /\ balance' \in [Targets -> Balance]
          /\ movements' \in [Targets -> Seq(Movement)]
      BY <2>1, <3>1, PostMovementTyped DEF Posts
    <3> QED
      BY <2>1, <3>2, ReservationTyped DEF TypeOK
  <2>2. ASSUME TypeOK, UNCHANGED vars
        PROVE  TypeOK'
    BY <2>2 DEF TypeOK, vars
  <2> QED
    BY <2>1, <2>2
<1> QED
  BY <1>1, <1>2, PTL DEF Spec

-----------------------------------------------------------------------------
(* Stock never goes out of bounds.                                         *)

\* No sequence of commands leaves a balance with reserved < 0,
\* reserved > on_hand, or on_hand beyond its column.
THEOREM StockBoundsInvariant == Spec => []StockBounds
<1>1. Init => StockBounds
  <2> SUFFICES ASSUME Init, NEW t \in Targets
               PROVE  /\ 0 <= balance[t].reserved
                      /\ balance[t].reserved <= balance[t].onHand
                      /\ balance[t].onHand <= MaxStock
    BY DEF StockBounds
  <2>1. balance[t].onHand = 0 /\ balance[t].reserved = 0
    BY DEF Init
  <2>2. MaxStock \in Nat
    BY InventoryAssumption DEF InventoryAssumption
  <2> QED
    BY <2>1, <2>2
<1>2. TypeOK /\ StockBounds /\ [Next]_vars => StockBounds'
  <2>1. ASSUME TypeOK, StockBounds, Next
        PROVE  StockBounds'
    <3>1. PICK k \in Keys, t \in Targets, type \in MovementType,
               onHandDelta \in Int, reservedDelta \in Int,
               r \in Keys \cup {NoReservation} :
            Posts(k, t, type, onHandDelta, reservedDelta, r)
      BY <2>1, StepPostsOneMovement
    <3>2. \A u \in Targets : balance'[u] =
            IF u = t THEN [onHand |-> balance[t].onHand + onHandDelta,
                           reserved |-> balance[t].reserved + reservedDelta]
                     ELSE balance[u]
      BY <2>1, <3>1 DEF Posts, PostMovement, TypeOK
    <3>3. /\ balance[t].onHand + onHandDelta <= MaxStock
          /\ balance[t].reserved + reservedDelta <= balance[t].onHand + onHandDelta
          /\ 0 <= balance[t].reserved + reservedDelta
      BY <2>1, <3>1 DEF Posts, PostMovement
    <3> QED
      BY <2>1, <3>2, <3>3 DEF StockBounds
  <2>2. ASSUME StockBounds, UNCHANGED vars
        PROVE  StockBounds'
    BY <2>2 DEF StockBounds, vars
  <2> QED
    BY <2>1, <2>2
<1> QED
  BY <1>1, <1>2, TypeCorrect, PTL DEF Spec

-----------------------------------------------------------------------------
(* The ledger.                                                             *)

\* The movement a command posts.
MovementRow(k, t, type, onHandDelta, reservedDelta, r) ==
  [key |-> k, type |-> type,
   onHandDelta |-> onHandDelta, reservedDelta |-> reservedDelta,
   onHandAfter |-> balance[t].onHand + onHandDelta,
   reservedAfter |-> balance[t].reserved + reservedDelta,
   reservation |-> r]

\* A posted movement is appended to its own target's ledger and carries the
\* new balance; every other ledger and balance is left alone.
Posted(k, t, type, onHandDelta, reservedDelta, r) ==
  /\ Len(movements[t]) \in Nat
  /\ Len(movements'[t]) = Len(movements[t]) + 1
  /\ DOMAIN movements[t] = 1..Len(movements[t])
  /\ DOMAIN movements'[t] = 1..(Len(movements[t]) + 1)
  /\ \A i \in 1..Len(movements[t]) : movements'[t][i] = movements[t][i]
  /\ movements'[t][Len(movements[t]) + 1] =
       MovementRow(k, t, type, onHandDelta, reservedDelta, r)
  /\ balance'[t] = [onHand |-> balance[t].onHand + onHandDelta,
                    reserved |-> balance[t].reserved + reservedDelta]
  /\ \A u \in Targets \ {t} : /\ movements'[u] = movements[u]
                               /\ balance'[u] = balance[u]

LEMMA PostedLedger ==
  ASSUME TypeOK, NEW k \in Keys, NEW t \in Targets, NEW type \in MovementType,
         NEW onHandDelta \in Int, NEW reservedDelta \in Int,
         NEW r \in Keys \cup {NoReservation},
         PostMovement(k, t, type, onHandDelta, reservedDelta, r)
  PROVE  Posted(k, t, type, onHandDelta, reservedDelta, r)
<1> DEFINE m == MovementRow(k, t, type, onHandDelta, reservedDelta, r)
<1>1. balance[t] \in Balance /\ movements[t] \in Seq(Movement)
  BY DEF TypeOK
<1>2. m \in Movement
  BY <1>1 DEF Movement, Balance, MovementRow
<1>3. movements' = [movements EXCEPT ![t] = Append(movements[t], m)]
  BY DEF PostMovement, MovementRow
<1>4. movements'[t] = Append(movements[t], m)
  BY <1>3 DEF TypeOK
<1> HIDE DEF m
<1> DEFINE n == Len(movements[t])
<1>5. /\ n \in Nat
      /\ Len(Append(movements[t], m)) = n + 1
      /\ DOMAIN movements[t] = 1..n
      /\ DOMAIN Append(movements[t], m) = 1..(n + 1)
      /\ \A i \in 1..n : Append(movements[t], m)[i] = movements[t][i]
      /\ Append(movements[t], m)[n + 1] = m
  BY <1>1, <1>2
<1>6. \A u \in Targets \ {t} : movements'[u] = movements[u] /\ balance'[u] = balance[u]
  BY <1>3 DEF TypeOK, PostMovement
<1>7. balance'[t] = [onHand |-> balance[t].onHand + onHandDelta,
                     reserved |-> balance[t].reserved + reservedDelta]
  BY DEF TypeOK, PostMovement
<1> QED
  BY <1>4, <1>5, <1>6, <1>7 DEF m, Posted

\* The ledger of every target explains its balance, movement by movement.
THEOREM LedgerInvariant == Spec => []LedgerExplainsBalance
<1>1. Init => LedgerExplainsBalance
  <2> SUFFICES ASSUME Init
               PROVE  LedgerExplainsBalance
    OBVIOUS
  <2>1. \A t \in Targets : /\ movements[t] = <<>>
                           /\ balance[t].onHand = 0
                           /\ balance[t].reserved = 0
    BY DEF Init
  <2>2. Len(<<>>) = 0 /\ 1..0 = {}
    OBVIOUS
  <2> QED
    BY <2>1, <2>2 DEF LedgerExplainsBalance
<1>2. TypeOK /\ LedgerExplainsBalance /\ [Next]_vars => LedgerExplainsBalance'
  <2>1. ASSUME TypeOK, LedgerExplainsBalance, Next
        PROVE  LedgerExplainsBalance'
    <3>1. PICK k \in Keys, t \in Targets, type \in MovementType,
               onHandDelta \in Int, reservedDelta \in Int,
               r \in Keys \cup {NoReservation} :
            Posts(k, t, type, onHandDelta, reservedDelta, r)
      BY <2>1, StepPostsOneMovement
    <3> DEFINE Explained(ledger, bal) ==
                 LET n == Len(ledger)
                 IN  /\ \A i \in 1..n :
                          /\ ledger[i].onHandAfter =
                               (IF i = 1 THEN 0 ELSE ledger[i-1].onHandAfter)
                                  + ledger[i].onHandDelta
                          /\ ledger[i].reservedAfter =
                               (IF i = 1 THEN 0 ELSE ledger[i-1].reservedAfter)
                                  + ledger[i].reservedDelta
                     /\ bal.onHand = (IF n = 0 THEN 0 ELSE ledger[n].onHandAfter)
                     /\ bal.reserved = (IF n = 0 THEN 0 ELSE ledger[n].reservedAfter)
    <3>2. \A u \in Targets : Explained(movements[u], balance[u])
      BY <2>1 DEF LedgerExplainsBalance
    <3>3. Explained(movements'[t], balance'[t])
      <4> DEFINE n == Len(movements[t])
      <4>1. /\ n \in Nat
            /\ Len(movements'[t]) = n + 1
            /\ \A i \in 1..n : movements'[t][i] = movements[t][i]
            /\ movements'[t][n + 1].onHandDelta = onHandDelta
            /\ movements'[t][n + 1].reservedDelta = reservedDelta
            /\ movements'[t][n + 1].onHandAfter = balance[t].onHand + onHandDelta
            /\ movements'[t][n + 1].reservedAfter = balance[t].reserved + reservedDelta
            /\ balance'[t].onHand = balance[t].onHand + onHandDelta
            /\ balance'[t].reserved = balance[t].reserved + reservedDelta
        <5>1. /\ Len(movements[t]) \in Nat
              /\ Len(movements'[t]) = Len(movements[t]) + 1
              /\ \A i \in 1..Len(movements[t]) : movements'[t][i] = movements[t][i]
              /\ movements'[t][Len(movements[t]) + 1] =
                    MovementRow(k, t, type, onHandDelta, reservedDelta, r)
              /\ balance'[t] = [onHand |-> balance[t].onHand + onHandDelta,
                                reserved |-> balance[t].reserved + reservedDelta]
          BY <2>1, <3>1, PostedLedger DEF Posts, Posted
        <5> QED
          BY <5>1 DEF MovementRow
      <4>2. \A i \in 1..(n + 1) :
              /\ movements'[t][i].onHandAfter =
                   (IF i = 1 THEN 0 ELSE movements'[t][i-1].onHandAfter)
                      + movements'[t][i].onHandDelta
              /\ movements'[t][i].reservedAfter =
                   (IF i = 1 THEN 0 ELSE movements'[t][i-1].reservedAfter)
                      + movements'[t][i].reservedDelta
        <5> SUFFICES ASSUME NEW i \in 1..(n + 1)
                     PROVE  /\ movements'[t][i].onHandAfter =
                                 (IF i = 1 THEN 0 ELSE movements'[t][i-1].onHandAfter)
                                    + movements'[t][i].onHandDelta
                            /\ movements'[t][i].reservedAfter =
                                 (IF i = 1 THEN 0 ELSE movements'[t][i-1].reservedAfter)
                                    + movements'[t][i].reservedDelta
          OBVIOUS
        <5>1. Explained(movements[t], balance[t])
          BY <3>2
        <5>2. CASE i \in 1..n
          <6>1. i - 1 \in 1..n \/ i = 1
            BY <4>1, <5>2
          <6> QED
            BY <4>1, <5>1, <5>2, <6>1
        <5>3. CASE i = n + 1
          BY <4>1, <5>1, <5>3
        <5> QED
          BY <4>1, <5>2, <5>3
      <4>3. n + 1 # 0
        BY <4>1
      <4> QED
        BY <4>1, <4>2, <4>3
    <3>4. \A u \in Targets \ {t} : movements'[u] = movements[u] /\ balance'[u] = balance[u]
      BY <2>1, <3>1, PostedLedger DEF Posts, Posted
    <3>5. \A u \in Targets : Explained(movements'[u], balance'[u])
      BY <3>2, <3>3, <3>4
    <3> QED
      BY <3>5 DEF LedgerExplainsBalance
  <2>2. ASSUME LedgerExplainsBalance, UNCHANGED vars
        PROVE  LedgerExplainsBalance'
    BY <2>2 DEF LedgerExplainsBalance, vars
  <2> QED
    BY <2>1, <2>2
<1> QED
  BY <1>1, <1>2, TypeCorrect, PTL DEF Spec

\* Movements are immutable: nothing is ever removed from a ledger or rewritten.
THEOREM LedgerIsAppendOnly == Spec => LedgerAppendOnly
<1> DEFINE Grows == \A t \in Targets :
             /\ Len(movements[t]) <= Len(movements'[t])
             /\ \A i \in DOMAIN movements[t] : movements'[t][i] = movements[t][i]
<1>1. ASSUME TypeOK, Next
      PROVE  Grows
  <2>1. PICK k \in Keys, t \in Targets, type \in MovementType,
             onHandDelta \in Int, reservedDelta \in Int,
             r \in Keys \cup {NoReservation} :
          Posts(k, t, type, onHandDelta, reservedDelta, r)
    BY <1>1, StepPostsOneMovement
  <2> DEFINE n == Len(movements[t])
  <2>2. /\ n \in Nat
        /\ Len(movements'[t]) = n + 1
        /\ DOMAIN movements[t] = 1..n
        /\ \A i \in 1..n : movements'[t][i] = movements[t][i]
        /\ \A u \in Targets \ {t} : movements'[u] = movements[u]
    BY <1>1, <2>1, PostedLedger DEF Posts, Posted
  <2>3. \A u \in Targets : Len(movements[u]) \in Nat
    BY <1>1 DEF TypeOK
  <2> QED
    BY <2>2, <2>3
<1>2. TypeOK /\ [Next]_vars => [Grows]_vars
  BY <1>1
<1> QED
  BY <1>2, TypeCorrect, PTL DEF Spec, LedgerAppendOnly

-----------------------------------------------------------------------------
(* Keys and reservations.                                                  *)

\* After a command every ledger position is an old one, unchanged, or the one
\* position the command added.
LEMMA PositionsAfterPost ==
  ASSUME TypeOK, NEW k \in Keys, NEW t \in Targets, NEW type \in MovementType,
         NEW onHandDelta \in Int, NEW reservedDelta \in Int,
         NEW r \in Keys \cup {NoReservation},
         PostMovement(k, t, type, onHandDelta, reservedDelta, r),
         NEW u \in Targets, NEW i \in DOMAIN movements'[u]
  PROVE  \/ i \in DOMAIN movements[u] /\ movements'[u][i] = movements[u][i]
         \/ /\ u = t /\ i = Len(movements[t]) + 1
            /\ movements'[u][i].key = k
            /\ movements'[u][i].type = type
            /\ movements'[u][i].reservedDelta = reservedDelta
            /\ movements'[u][i].reservation = r
<1> DEFINE n == Len(movements[t])
<1>1. Posted(k, t, type, onHandDelta, reservedDelta, r)
  BY PostedLedger
<1>2. /\ movements'[t][n + 1].key = k
      /\ movements'[t][n + 1].type = type
      /\ movements'[t][n + 1].reservedDelta = reservedDelta
      /\ movements'[t][n + 1].reservation = r
  BY <1>1 DEF Posted, MovementRow
<1>3. CASE u # t
  BY <1>1, <1>3 DEF Posted
<1>4. CASE u = t /\ i \in 1..n
  BY <1>1, <1>4 DEF Posted
<1>5. CASE u = t /\ i = n + 1
  BY <1>2, <1>5
<1>6. u = t => i \in 1..n \/ i = n + 1
  BY <1>1 DEF Posted
<1> QED
  BY <1>3, <1>4, <1>5, <1>6

\* A command is applied at most once per idempotency key.
THEOREM KeyAppliedOnceInvariant == Spec => []KeyAppliedOnce
<1>1. Init => KeyAppliedOnce
  BY DEF Init, KeyAppliedOnce
<1>2. TypeOK /\ KeyAppliedOnce /\ [Next]_vars => KeyAppliedOnce'
  <2>1. ASSUME TypeOK, KeyAppliedOnce, Next
        PROVE  KeyAppliedOnce'
    <3>1. PICK k \in Keys, t \in Targets, type \in MovementType,
               onHandDelta \in Int, reservedDelta \in Int,
               r \in Keys \cup {NoReservation} :
            Posts(k, t, type, onHandDelta, reservedDelta, r)
      BY <2>1, StepPostsOneMovement
    <3>2. ~KeyUsed(k) /\ PostMovement(k, t, type, onHandDelta, reservedDelta, r)
      BY <3>1 DEF Posts
    <3> SUFFICES ASSUME NEW u \in Targets, NEW v \in Targets,
                        NEW i \in DOMAIN movements'[u], NEW j \in DOMAIN movements'[v],
                        movements'[u][i].key = movements'[v][j].key
                 PROVE  u = v /\ i = j
      BY DEF KeyAppliedOnce
    <3>3. \/ i \in DOMAIN movements[u] /\ movements'[u][i] = movements[u][i]
          \/ u = t /\ i = Len(movements[t]) + 1 /\ movements'[u][i].key = k
      BY <2>1, <3>2, PositionsAfterPost
    <3>4. \/ j \in DOMAIN movements[v] /\ movements'[v][j] = movements[v][j]
          \/ v = t /\ j = Len(movements[t]) + 1 /\ movements'[v][j].key = k
      BY <2>1, <3>2, PositionsAfterPost
    <3> QED
      BY <2>1, <3>2, <3>3, <3>4 DEF KeyAppliedOnce, KeyUsed
  <2>2. ASSUME KeyAppliedOnce, UNCHANGED vars
        PROVE  KeyAppliedOnce'
    BY <2>2 DEF KeyAppliedOnce, vars
  <2> QED
    BY <2>1, <2>2
<1> QED
  BY <1>1, <1>2, TypeCorrect, PTL DEF Spec

\* SettledOnce is not inductive alone: a reserve command must not revive a
\* reservation whose key was used.  A row's key is the key of a movement.
RowHasCreator == \A r \in Keys : Reserved(r) => KeyUsed(r)

ReservationInv == SettledOnce /\ RowHasCreator

\* A used key stays used, and the posted one becomes used.
LEMMA KeysStayUsed ==
  ASSUME TypeOK, NEW k \in Keys, NEW t \in Targets, NEW type \in MovementType,
         NEW onHandDelta \in Int, NEW reservedDelta \in Int,
         NEW r \in Keys \cup {NoReservation},
         PostMovement(k, t, type, onHandDelta, reservedDelta, r)
  PROVE  \A l \in Keys : KeyUsed(l) \/ l = k => KeyUsed(l)'
<1>1. /\ Len(movements[t]) \in Nat
      /\ DOMAIN movements[t] = 1..Len(movements[t])
      /\ DOMAIN movements'[t] = 1..(Len(movements[t]) + 1)
      /\ \A i \in 1..Len(movements[t]) : movements'[t][i] = movements[t][i]
      /\ \A u \in Targets \ {t} : movements'[u] = movements[u]
  BY PostedLedger DEF Posted
<1>2. movements'[t][Len(movements[t]) + 1].key = k
  <2>1. /\ Len(movements[t]) + 1 \in DOMAIN movements'[t]
        /\ Len(movements[t]) + 1 \notin DOMAIN movements[t]
    BY <1>1
  <2> QED
    BY <2>1, PositionsAfterPost
<1>3. \A u \in Targets : \A i \in DOMAIN movements[u] :
        i \in DOMAIN movements'[u] /\ movements'[u][i] = movements[u][i]
  BY <1>1
<1>4. Len(movements[t]) + 1 \in DOMAIN movements'[t]
  BY <1>1
<1> QED
  BY <1>2, <1>3, <1>4 DEF KeyUsed

\* Reservation rows and the ledger agree throughout.
LEMMA ReservationInvAlways == Spec => []ReservationInv
<1>1. Init => ReservationInv
  BY DEF Init, ReservationInv, SettledOnce, RowHasCreator, Reserved
<1>2. TypeOK /\ ReservationInv /\ [Next]_vars => ReservationInv'
  <2>1. ASSUME TypeOK, ReservationInv, NEW k \in Keys, NEW t \in Targets,
               NEW type \in MovementType, NEW d \in Int,
               ApplySimpleMovement(k, type, t, d)
        PROVE  ReservationInv'
    <3>1. /\ PostMovement(k, t, type, d, 0, NoReservation)
          /\ reservation' = reservation /\ 0 \in Int
      BY <2>1 DEF ApplySimpleMovement
    <3>2. RowHasCreator'
      BY <2>1, <3>1, KeysStayUsed DEF ReservationInv, RowHasCreator, Reserved
    <3>3. \A u \in Targets : \A i \in DOMAIN movements'[u] :
            movements'[u][i].reservation # NoReservation =>
              i \in DOMAIN movements[u] /\ movements'[u][i] = movements[u][i]
      BY <2>1, <3>1, PositionsAfterPost
    <3>4. \A r \in Keys : r # NoReservation
      BY InventoryAssumption DEF InventoryAssumption
    <3>5. SettledOnce'
      BY <2>1, <3>1, <3>3, <3>4 DEF ReservationInv, SettledOnce, Reserved
    <3> QED
      BY <3>2, <3>5 DEF ReservationInv
  <2>2. ASSUME TypeOK, ReservationInv, NEW k \in Keys, NEW t \in Targets,
               NEW q \in Quantities, ReserveInventory(k, t, q)
        PROVE  ReservationInv'
    <3>1. /\ PostMovement(k, t, "reserve", 0, q, k) /\ ~KeyUsed(k)
          /\ "reserve" \in MovementType /\ 0 \in Int /\ q \in Int
      BY <2>2, PositiveQuantities DEF ReserveInventory, MovementType
    <3>2. \A r \in Keys \ {k} : reservation'[r] = reservation[r]
      BY <2>2 DEF ReserveInventory, TypeOK
    <3>3. RowHasCreator'
      BY <2>2, <3>1, <3>2, KeysStayUsed DEF ReservationInv, RowHasCreator, Reserved
    <3>4. \A u \in Targets : \A i \in DOMAIN movements'[u] :
            movements'[u][i].type # "reserve" =>
              i \in DOMAIN movements[u] /\ movements'[u][i] = movements[u][i]
      BY <2>2, <3>1, PositionsAfterPost
    <3>5. ~Reserved(k)
      BY <2>2, <3>1 DEF ReservationInv, RowHasCreator
    <3>6. SettledOnce'
      BY <2>2, <3>2, <3>4, <3>5 DEF ReservationInv, SettledOnce, Reserved
    <3> QED
      BY <3>3, <3>6 DEF ReservationInv
  <2>3. ASSUME TypeOK, ReservationInv, NEW k \in Keys, NEW r \in Keys,
               NEW s \in {"released", "committed"}, TransitionReservation(k, r, s)
        PROVE  ReservationInv'
    <3> DEFINE t == reservation[r].target
               q == reservation[r].quantity
               sold == IF s = "committed" THEN q ELSE 0
               type == IF s = "committed" THEN "sell" ELSE "release"
    <3>1. reservation[r] \in ReservationRow
      BY <2>3 DEF TransitionReservation, Reserved, TypeOK
    <3>2. /\ t \in Targets /\ -q \in Int /\ -sold \in Int
          /\ type \in MovementType \ {"reserve"}
      BY <3>1, PositiveQuantities DEF ReservationRow, MovementType
    <3>3. /\ PostMovement(k, t, type, -sold, -q, r)
          /\ Reserved(r) /\ reservation[r].status = "active"
      BY <2>3 DEF TransitionReservation
    <3>4. reservation' = [reservation EXCEPT ![r].status = s]
      BY <2>3 DEF TransitionReservation
    <3>5. /\ \A l \in Keys \ {r} : reservation'[l] = reservation[l]
          /\ reservation'[r] = [reservation[r] EXCEPT !.status = s]
      BY <2>3, <3>4 DEF TypeOK
    <3>6. reservation'[r].target = t /\ reservation'[r].quantity = q
          /\ reservation'[r].status = s
      BY <3>1, <3>5 DEF ReservationRow
    <3>7. reservation'[r] # NoReservation
      <4>1. reservation'[r] \in ReservationRow
        BY <3>1, <3>5 DEF ReservationRow, ReservationStatus
      <4> QED
        BY <4>1, InventoryAssumption DEF InventoryAssumption
    <3>8. RowHasCreator'
      BY <2>3, <3>2, <3>3, <3>5, KeysStayUsed DEF ReservationInv, RowHasCreator, Reserved
    <3>9. \A u \in Targets : \A i \in DOMAIN movements[u] :
            movements[u][i].reservation = r => movements[u][i].type = "reserve"
      BY <2>3, <3>3 DEF ReservationInv, SettledOnce
    <3>10. \A u \in Targets : \A i \in DOMAIN movements'[u] :
             \/ i \in DOMAIN movements[u] /\ movements'[u][i] = movements[u][i]
             \/ /\ u = t /\ i = Len(movements[t]) + 1
                /\ movements'[u][i].type = type
                /\ movements'[u][i].reservedDelta = -q
                /\ movements'[u][i].reservation = r
      <4> HIDE DEF t, q, sold, type
      <4> QED
        BY <2>3, <3>2, <3>3, PositionsAfterPost
    <3>11. SettledOnce'
      <4> SUFFICES ASSUME NEW l \in Keys, NEW u \in Targets,
                          NEW i \in DOMAIN movements'[u],
                          movements'[u][i].reservation = l,
                          movements'[u][i].type # "reserve"
                   PROVE
                     /\ Reserved(l)'
                     /\ reservation'[l].target = u
                     /\ movements'[u][i].reservedDelta = -reservation'[l].quantity
                     /\ \/ /\ movements'[u][i].type = "release"
                           /\ reservation'[l].status = "released"
                        \/ /\ movements'[u][i].type = "sell"
                           /\ reservation'[l].status = "committed"
                     /\ \A j \in DOMAIN movements'[u] :
                          /\ movements'[u][j].reservation = l
                          /\ movements'[u][j].type # "reserve"
                          => i = j
        BY DEF SettledOnce
      <4>1. CASE l = r
        <5>1. u = t /\ i = Len(movements[t]) + 1 /\ movements'[u][i].type = type
              /\ movements'[u][i].reservedDelta = -q
          BY <3>9, <3>10, <4>1
        <5>2. \A j \in DOMAIN movements'[u] :
                /\ movements'[u][j].reservation = l
                /\ movements'[u][j].type # "reserve"
                => i = j
          BY <3>9, <3>10, <4>1, <5>1
        <5> QED
          BY <3>6, <3>7, <4>1, <5>1, <5>2 DEF Reserved
      <4>2. CASE l # r
        <5>1. i \in DOMAIN movements[u] /\ movements'[u][i] = movements[u][i]
          BY <3>10, <4>2
        <5>2. \A j \in DOMAIN movements'[u] :
                movements'[u][j].reservation = l =>
                  j \in DOMAIN movements[u] /\ movements'[u][j] = movements[u][j]
          BY <3>10, <4>2
        <5> QED
          BY <2>3, <3>5, <4>2, <5>1, <5>2 DEF ReservationInv, SettledOnce, Reserved
      <4> QED
        BY <4>1, <4>2
    <3> QED
      BY <3>8, <3>11 DEF ReservationInv
  <2>4. ASSUME ReservationInv, UNCHANGED vars
        PROVE  ReservationInv'
    BY <2>4 DEF ReservationInv, SettledOnce, RowHasCreator, Reserved, KeyUsed, vars
  <2>5. ASSUME TypeOK, ReservationInv, Next
        PROVE  ReservationInv'
    BY <2>1, <2>2, <2>3, <2>5, CommandKinds
  <2> QED
    BY <2>4, <2>5
<1> QED
  BY <1>1, <1>2, TypeCorrect, PTL DEF Spec

\* Every reservation is settled at most once, as its status says.
THEOREM SettledOnceInvariant == Spec => []SettledOnce
<1>1. ReservationInv => SettledOnce
  BY DEF ReservationInv
<1> QED
  BY <1>1, ReservationInvAlways, PTL

\* A reservation row keeps its target and quantity and leaves 'active' once.
THEOREM ReservationLifecycleAlways == Spec => ReservationLifecycle
<1> DEFINE Kept(r) ==
      Reserved(r) =>
        /\ reservation'[r] # NoReservation
        /\ reservation'[r].target = reservation[r].target
        /\ reservation'[r].quantity = reservation[r].quantity
        /\ reservation[r].status # "active" => reservation'[r] = reservation[r]
<1>1. ASSUME TypeOK, ReservationInv, Next, NEW r \in Keys
      PROVE  Kept(r)
  <2>1. CASE reservation' = reservation
    BY <2>1 DEF Reserved
  <2>2. ASSUME NEW k \in Keys, NEW t \in Targets, NEW q \in Quantities,
               ReserveInventory(k, t, q)
        PROVE  Kept(r)
    <3>1. ~Reserved(k)
      BY <1>1, <2>2 DEF ReserveInventory, ReservationInv, RowHasCreator
    <3>2. r # k => reservation'[r] = reservation[r]
      BY <1>1, <2>2 DEF ReserveInventory, TypeOK
    <3> QED
      BY <3>1, <3>2 DEF Reserved
  <2>3. ASSUME NEW k \in Keys, NEW l \in Keys, NEW status \in {"released", "committed"},
               TransitionReservation(k, l, status)
        PROVE  Kept(r)
    <3>1. /\ reservation[l] \in ReservationRow /\ reservation[l].status = "active"
          /\ reservation' = [reservation EXCEPT ![l].status = status]
      BY <1>1, <2>3 DEF TransitionReservation, Reserved, TypeOK
    <3>2. CASE r # l
      BY <1>1, <3>1, <3>2 DEF TypeOK, Reserved
    <3>3. CASE r = l
      <4>1. reservation'[r] = [reservation[r] EXCEPT !.status = status]
        BY <1>1, <3>1, <3>3 DEF TypeOK
      <4>2. reservation'[r] \in ReservationRow
            /\ reservation'[r].target = reservation[r].target
            /\ reservation'[r].quantity = reservation[r].quantity
        BY <3>1, <3>3, <4>1 DEF ReservationRow, ReservationStatus
      <4> QED
        BY <3>1, <3>3, <4>2, InventoryAssumption DEF InventoryAssumption
    <3> QED
      BY <3>2, <3>3
  <2>4. ASSUME NEW k \in Keys, NEW t \in Targets, NEW type \in MovementType,
               NEW d \in Int, ApplySimpleMovement(k, type, t, d)
        PROVE  Kept(r)
    BY <2>1, <2>4 DEF ApplySimpleMovement
  <2> QED
    BY <1>1, <2>2, <2>3, <2>4, CommandKinds
<1> DEFINE A == \A r \in Keys : Kept(r)
<1>2. TypeOK /\ ReservationInv /\ [Next]_vars => [A]_vars
  BY <1>1
<1> HIDE DEF A
<1>3. Spec => [][A]_vars
  BY <1>2, TypeCorrect, ReservationInvAlways, PTL DEF Spec
<1> QED
  BY <1>3 DEF A, ReservationLifecycle
-----------------------------------------------------------------------------
(* The reserved column.                                                    *)

\* A sum over the reservations would need an induction over data; counting the
\* units they hold needs only what a disjoint union adds to a cardinality.
Units(r, q) == {r} \X (1..q)

LEMMA UnitsCounted ==
  ASSUME NEW r, NEW q \in Nat
  PROVE  IsFiniteSet(Units(r, q)) /\ Cardinality(Units(r, q)) = q
<1>1. IsFiniteSet({r}) /\ Cardinality({r}) = 1
  BY FS_Singleton
<1>2. IsFiniteSet(1..q) /\ Cardinality(1..q) = q
  BY FS_Interval
<1>3. /\ IsFiniteSet({r} \X (1..q))
      /\ Cardinality({r} \X (1..q)) = Cardinality({r}) * Cardinality(1..q)
  BY <1>1, <1>2, FS_Product
<1> QED
  BY <1>1, <1>2, <1>3 DEF Units

\* A unit set gains or loses q elements with the units of one reservation.
LEMMA UnitsJoin ==
  ASSUME NEW S, IsFiniteSet(S), NEW r, NEW q \in Nat, S \cap Units(r, q) = {}
  PROVE  /\ IsFiniteSet(S \cup Units(r, q))
         /\ Cardinality(S \cup Units(r, q)) = Cardinality(S) + q
<1>1. Cardinality(S) \in Nat
  BY FS_CardinalityType
<1>2. Cardinality(S \cap Units(r, q)) = 0
  BY FS_EmptySet
<1>3. IsFiniteSet(Units(r, q)) /\ Cardinality(Units(r, q)) = q
  BY UnitsCounted
<1>4. /\ IsFiniteSet(S \cup Units(r, q))
      /\ Cardinality(S \cup Units(r, q)) =
           Cardinality(S) + Cardinality(Units(r, q)) - Cardinality(S \cap Units(r, q))
  BY <1>3, FS_Union
<1> QED
  BY <1>1, <1>2, <1>3, <1>4

LEMMA UnitsLeave ==
  ASSUME NEW S, IsFiniteSet(S), NEW r, NEW q \in Nat, Units(r, q) \subseteq S
  PROVE  /\ IsFiniteSet(S \ Units(r, q))
         /\ Cardinality(S \ Units(r, q)) = Cardinality(S) - q
         /\ q <= Cardinality(S)
<1>1. IsFiniteSet(S \ Units(r, q))
  BY FS_Subset
<1>2. (S \ Units(r, q)) \cap Units(r, q) = {}
  OBVIOUS
<1>3. (S \ Units(r, q)) \cup Units(r, q) = S
  OBVIOUS
<1>4. Cardinality(S) = Cardinality(S \ Units(r, q)) + q
  BY <1>1, <1>2, <1>3, UnitsJoin
<1>5. Cardinality(S) \in Nat /\ Cardinality(S \ Units(r, q)) \in Nat
  BY <1>1, FS_CardinalityType
<1> QED
  BY <1>1, <1>4, <1>5

\* The reservations that hold stock of t.
HoldsOn(r, t) ==
  /\ Reserved(r)
  /\ reservation[r].target = t
  /\ reservation[r].status = "active"

LEMMA HeldUnitsMembers ==
  ASSUME NEW t
  PROVE  \A u : u \in HeldUnits(t) <=>
           \E r \in Keys : HoldsOn(r, t) /\ u \in Units(r, reservation[r].quantity)
BY DEF HeldUnits, HoldsOn, Units

\* Finiteness is part of the invariant: the keys of the shop need not be finite.
UnitsInv ==
  \A t \in Targets :
    /\ IsFiniteSet(HeldUnits(t))
    /\ balance[t].reserved = Cardinality(HeldUnits(t))
\* A step that leaves the rows and the reserved column alone keeps UnitsInv.
LEMMA UnitsKept ==
  ASSUME UnitsInv, UNCHANGED reservation,
         \A t \in Targets : balance'[t].reserved = balance[t].reserved
  PROVE  UnitsInv'
<1>1. \A t : HeldUnits(t)' = HeldUnits(t)
  BY DEF HeldUnits, Reserved
<1> QED
  BY <1>1 DEF UnitsInv

\* Reserving adds the units of a new row to its target.
LEMMA UnitsReserved ==
  ASSUME TypeOK, ReservationInv, UnitsInv,
         NEW k \in Keys, NEW t \in Targets, NEW q \in Quantities,
         ReserveInventory(k, t, q)
  PROVE  UnitsInv'
<1>1. ~Reserved(k) /\ q \in Nat
  BY PositiveQuantities DEF ReserveInventory, ReservationInv, RowHasCreator
<1>2. /\ reservation'[k] = [target |-> t, quantity |-> q, status |-> "active"]
      /\ \A l \in Keys \ {k} : reservation'[l] = reservation[l]
  BY DEF ReserveInventory, TypeOK
<1>3. Reserved(k)'
  <2>1. reservation'[k] \in ReservationRow
    BY <1>2 DEF ReservationRow, ReservationStatus
  <2> QED
    BY <2>1, InventoryAssumption DEF InventoryAssumption, Reserved
<1>4. \A l \in Keys : \A u : HoldsOn(l, u)' <=> HoldsOn(l, u) \/ (l = k /\ u = t)
  BY <1>1, <1>2, <1>3 DEF HoldsOn, Reserved
<1>5. \A l \in Keys : \A u : HoldsOn(l, u) => l # k
  BY <1>1 DEF HoldsOn
<1>6. HeldUnits(t)' = HeldUnits(t) \cup Units(k, q)
  <2>1. \A x : x \in HeldUnits(t)' <=> x \in HeldUnits(t) \/ x \in Units(k, q)
    <3>1. \A x : x \in HeldUnits(t)' <=>
            \E r \in Keys : HoldsOn(r, t)' /\ x \in Units(r, reservation'[r].quantity)
      BY DEF HeldUnits, HoldsOn, Units, Reserved
    <3> QED
      BY <1>2, <1>4, <1>5, <3>1, HeldUnitsMembers
  <2> QED
    BY <2>1
<1>7. \A u \in Targets \ {t} : HeldUnits(u)' = HeldUnits(u)
  <2> SUFFICES ASSUME NEW u \in Targets \ {t}
               PROVE  \A x : x \in HeldUnits(u)' <=> x \in HeldUnits(u)
    OBVIOUS
  <2>1. \A x : x \in HeldUnits(u)' <=>
          \E r \in Keys : HoldsOn(r, u)' /\ x \in Units(r, reservation'[r].quantity)
    BY DEF HeldUnits, HoldsOn, Units, Reserved
  <2> QED
    BY <1>2, <1>4, <1>5, <2>1, HeldUnitsMembers
<1>8. HeldUnits(t) \cap Units(k, q) = {}
  BY <1>5, HeldUnitsMembers DEF Units
<1>9. /\ balance'[t].reserved = balance[t].reserved + q
      /\ \A u \in Targets \ {t} : balance'[u] = balance[u]
  BY DEF ReserveInventory, PostMovement, TypeOK
<1>10. /\ IsFiniteSet(HeldUnits(t))
       /\ balance[t].reserved = Cardinality(HeldUnits(t))
  BY DEF UnitsInv
<1>11. /\ IsFiniteSet(HeldUnits(t)')
       /\ balance'[t].reserved = Cardinality(HeldUnits(t)')
  BY <1>1, <1>6, <1>8, <1>9, <1>10, UnitsJoin
<1> QED
  BY <1>7, <1>9, <1>11 DEF UnitsInv

\* Settling takes away the units of the row it settles.
LEMMA UnitsSettled ==
  ASSUME TypeOK, ReservationInv, UnitsInv,
         NEW k \in Keys, NEW r \in Keys, NEW s \in {"released", "committed"},
         TransitionReservation(k, r, s)
  PROVE  UnitsInv'
<1>0. reservation[r] \in ReservationRow
  BY DEF TransitionReservation, Reserved, TypeOK
<1>1. PICK t \in Targets, q \in Nat :
        /\ t = reservation[r].target
        /\ q = reservation[r].quantity
        /\ HoldsOn(r, t)
  BY <1>0, PositiveQuantities DEF TransitionReservation, ReservationRow, HoldsOn
<1>2. /\ reservation'[r].status = s
      /\ \A l \in Keys \ {r} : reservation'[l] = reservation[l]
  <2>1. reservation'[r] = [reservation[r] EXCEPT !.status = s]
    BY DEF TransitionReservation, TypeOK
  <2> QED
    BY <1>0, <2>1 DEF TransitionReservation, TypeOK, ReservationRow
<1>3. \A l \in Keys : \A u : HoldsOn(l, u)' <=> HoldsOn(l, u) /\ l # r
  BY <1>2 DEF HoldsOn, Reserved
<1>4. \A u : HoldsOn(r, u) => u = t
  BY <1>1 DEF HoldsOn
<1>5. \A u : \A x : x \in HeldUnits(u)' <=>
        \E l \in Keys : HoldsOn(l, u)' /\ x \in Units(l, reservation'[l].quantity)
  BY DEF HeldUnits, HoldsOn, Units, Reserved
<1>6. HeldUnits(t)' = HeldUnits(t) \ Units(r, q)
  <2>1. \A x, l : x \in Units(l, reservation[l].quantity) /\ l # r => x \notin Units(r, q)
    BY DEF Units
  <2>2. \A x : x \in HeldUnits(t)' <=> x \in HeldUnits(t) /\ x \notin Units(r, q)
    BY <1>1, <1>2, <1>3, <1>5, <2>1, HeldUnitsMembers
  <2> QED
    BY <2>2
<1>7. \A u \in Targets \ {t} : HeldUnits(u)' = HeldUnits(u)
  <2> SUFFICES ASSUME NEW u \in Targets \ {t}
               PROVE  \A x : x \in HeldUnits(u)' <=> x \in HeldUnits(u)
    OBVIOUS
  <2> QED
    BY <1>2, <1>3, <1>4, <1>5, HeldUnitsMembers
<1>8. Units(r, q) \subseteq HeldUnits(t)
  BY <1>1, HeldUnitsMembers
<1>9. /\ balance'[t].reserved = balance[t].reserved - q
      /\ \A u \in Targets \ {t} : balance'[u] = balance[u]
  <2>1. balance[t] \in Balance
    BY <1>1 DEF TypeOK
  <2> QED
    BY <1>1, <2>1 DEF TransitionReservation, PostMovement, TypeOK, Balance
<1>10. /\ IsFiniteSet(HeldUnits(t))
       /\ balance[t].reserved = Cardinality(HeldUnits(t))
  BY <1>1 DEF UnitsInv
<1>11. /\ IsFiniteSet(HeldUnits(t)')
       /\ balance'[t].reserved = Cardinality(HeldUnits(t)')
  BY <1>1, <1>6, <1>8, <1>9, <1>10, UnitsLeave
<1> QED
  BY <1>7, <1>9, <1>11 DEF UnitsInv

LEMMA UnitsInvAlways == Spec => []UnitsInv
<1>1. Init => UnitsInv
  <2> SUFFICES ASSUME Init, NEW t \in Targets
               PROVE  HeldUnits(t) = {} /\ balance[t].reserved = 0
    BY FS_EmptySet DEF UnitsInv
  <2> QED
    BY HeldUnitsMembers DEF Init, HoldsOn, Reserved
<1>2. TypeOK /\ ReservationInv /\ UnitsInv /\ [Next]_vars => UnitsInv'
  <2>1. ASSUME TypeOK, ReservationInv, UnitsInv, NEW k \in Keys, NEW t \in Targets,
               NEW type \in MovementType, NEW d \in Int,
               ApplySimpleMovement(k, type, t, d)
        PROVE  UnitsInv'
    <3>1. balance[t] \in Balance
      BY <2>1 DEF TypeOK
    <3>2. \A u \in Targets : balance'[u].reserved = balance[u].reserved
      BY <2>1, <3>1 DEF ApplySimpleMovement, PostMovement, TypeOK, Balance
    <3> QED
      BY <2>1, <3>2, UnitsKept DEF ApplySimpleMovement
  <2>2. ASSUME TypeOK, ReservationInv, UnitsInv, Next
        PROVE  UnitsInv'
    BY <2>1, <2>2, UnitsReserved, UnitsSettled, CommandKinds
  <2>3. ASSUME UnitsInv, UNCHANGED vars
        PROVE  UnitsInv'
    BY <2>3, UnitsKept DEF vars
  <2> QED
    BY <2>2, <2>3
<1> QED
  BY <1>1, <1>2, TypeCorrect, ReservationInvAlways, PTL DEF Spec

\* The reserved column of a balance is the sum of its active reservations.
THEOREM ReservedIsActiveSumInvariant == Spec => []ReservedIsActiveSum
<1>1. UnitsInv => ReservedIsActiveSum
  BY DEF UnitsInv, ReservedIsActiveSum
<1> QED
  BY <1>1, UnitsInvAlways, PTL

\* The balance under an active reservation always bears settling it either way:
\* the internal errors of transitionReservation ("Inventory balance is
\* inconsistent with the active reservation.", "Inventory balance would violate
\* stock invariants.") are unreachable.
BalanceBearsReservations ==
  \A r \in Keys : Reserved(r) /\ reservation[r].status = "active" =>
    LET t == reservation[r].target
        q == reservation[r].quantity
    IN  /\ balance[t].reserved >= q
        /\ \A sold \in {0, q} : balance[t].onHand - sold >= balance[t].reserved - q

THEOREM SettlementNeverInconsistent == Spec => []BalanceBearsReservations
<1>1. TypeOK /\ StockBounds /\ UnitsInv => BalanceBearsReservations
  <2> SUFFICES ASSUME TypeOK, StockBounds, UnitsInv,
                      NEW r \in Keys, Reserved(r), reservation[r].status = "active"
               PROVE  LET t == reservation[r].target
                          q == reservation[r].quantity
                      IN  /\ balance[t].reserved >= q
                          /\ \A sold \in {0, q} :
                               balance[t].onHand - sold >= balance[t].reserved - q
    BY DEF BalanceBearsReservations
  <2> DEFINE t == reservation[r].target
             q == reservation[r].quantity
  <2>1. reservation[r] \in ReservationRow
    BY DEF TypeOK, Reserved
  <2>2. t \in Targets /\ q \in Nat
    BY <2>1, PositiveQuantities DEF ReservationRow
  <2>3. Units(r, q) \subseteq HeldUnits(t)
    BY HeldUnitsMembers DEF HoldsOn
  <2>4. IsFiniteSet(HeldUnits(t)) /\ balance[t].reserved = Cardinality(HeldUnits(t))
    BY <2>2 DEF UnitsInv
  <2>5. q <= balance[t].reserved
    <3> HIDE DEF t, q
    <3> QED
      BY <2>2, <2>3, <2>4, UnitsLeave
  <2>6. balance[t] \in Balance /\ balance[t].reserved <= balance[t].onHand
    BY <2>2 DEF TypeOK, StockBounds
  <2> QED
    BY <2>2, <2>5, <2>6 DEF Balance
<1> QED
  BY <1>1, TypeCorrect, StockBoundsInvariant, UnitsInvAlways, PTL
=============================================================================
