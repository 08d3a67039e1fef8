------------------------------ MODULE Inventory ------------------------------
(***************************************************************************)
(* The stock commands of packages/db/src/inventory-commands.ts: receive,   *)
(* adjust, sell, return, reserve, release and commit.                      *)
(*                                                                         *)
(* A command runs in one database transaction that holds an advisory lock  *)
(* on its idempotency key and the row lock of the balance it changes from  *)
(* its first read to its commit, so a successful command is one step here; *)
(* module StockTransactions justifies that.  A command that fails, or that *)
(* replays an earlier one, changes no table and is a stuttering step.      *)
(*                                                                         *)
(* A target is a (location, variant) pair: the primary key of              *)
(* inventory_balances.  A reservation row is created by exactly one        *)
(* reserve command, whose idempotency key stands for the row's random id.  *)
(***************************************************************************)
EXTENDS Integers, Sequences, FiniteSets

CONSTANTS
  Targets,        \* the (location, variant) pairs of one tenant
  ActiveTargets,  \* those whose location and variant are both 'active'
  Keys,           \* idempotency keys of the commands clients send
  Quantities,     \* quantities clients send
  MaxStock,       \* largest value of the integer columns
  NoReservation   \* null reservation

\* A stock_reservations row.  No statement of the code ever writes the fourth
\* status of the column, 'expired'.
ReservationStatus == {"active", "released", "committed"}

ReservationRow ==
  [target : Targets, quantity : Quantities, status : ReservationStatus]

ASSUME InventoryAssumption ==
  /\ ActiveTargets \subseteq Targets
  /\ Quantities \subseteq Nat \ {0}
  /\ MaxStock \in Nat
  /\ NoReservation \notin Keys \cup ReservationRow

VARIABLES
  balance,      \* inventory_balances: on_hand and reserved of each target
  reservation,  \* stock_reservations, by the key of the creating command
  movements     \* inventory_movements: the ledger of each target, oldest first

vars == <<balance, reservation, movements>>

-----------------------------------------------------------------------------
Balance == [onHand : Int, reserved : Int]

MovementType == {"receive", "adjust", "sell", "return", "reserve", "release"}

Movement ==
  [key : Keys, type : MovementType, onHandDelta : Int, reservedDelta : Int,
   onHandAfter : Int, reservedAfter : Int,
   reservation : Keys \cup {NoReservation}]

Reserved(r) == reservation[r] # NoReservation

\* replayIfPresent: the key of a command that has committed already either
\* replays its movement or is refused as a conflict.
KeyUsed_NeverRemembered(k) == FALSE

KeyUsed(k) ==
  \E t \in Targets : \E i \in DOMAIN movements[t] : movements[t][i].key = k

\* The code keeps no "available" column: it subtracts under the row lock.
Available_IgnoresReserved(t) == balance[t].onHand

Available(t) == balance[t].onHand - balance[t].reserved

\* lockBalance, updateBalance and insertMovement: the tail of every command.
PostMovement_StaleAfter(k, t, type, onHandDelta, reservedDelta, r) ==
  /\ t \in ActiveTargets
  /\ balance[t].onHand + onHandDelta <= MaxStock
  /\ balance' = [balance EXCEPT ![t].onHand = @ + onHandDelta,
                                ![t].reserved = @ + reservedDelta]
  /\ movements' = [movements EXCEPT ![t] = Append(@,
       [key |-> k, type |-> type,
        onHandDelta |-> onHandDelta, reservedDelta |-> reservedDelta,
        onHandAfter |-> balance[t].onHand,
        reservedAfter |-> balance[t].reserved, reservation |-> r])]

PostMovement(k, t, type, onHandDelta, reservedDelta, r) ==
  LET onHandAfter == balance[t].onHand + onHandDelta
      reservedAfter == balance[t].reserved + reservedDelta
  IN  /\ t \in ActiveTargets
      /\ onHandAfter <= MaxStock
      /\ balance' = [balance EXCEPT ![t] =
                       [onHand |-> onHandAfter, reserved |-> reservedAfter]]
      /\ movements' = [movements EXCEPT ![t] = Append(@,
           [key |-> k, type |-> type,
            onHandDelta |-> onHandDelta, reservedDelta |-> reservedDelta,
            onHandAfter |-> onHandAfter, reservedAfter |-> reservedAfter,
            reservation |-> r])]

-----------------------------------------------------------------------------
Init ==
  /\ balance = [t \in Targets |-> [onHand |-> 0, reserved |-> 0]]
  /\ reservation = [k \in Keys |-> NoReservation]
  /\ movements = [t \in Targets |-> <<>>]

\* applySimpleMovement: stock may not fall below what is reserved.
ApplySimpleMovement(k, type, t, onHandDelta) ==
  /\ ~KeyUsed(k)
  /\ balance[t].onHand + onHandDelta >= balance[t].reserved
  /\ PostMovement(k, t, type, onHandDelta, 0, NoReservation)
  /\ UNCHANGED reservation

ReceiveInventory(k, t, q) == ApplySimpleMovement(k, "receive", t, q)

ReturnInventory(k, t, q) == ApplySimpleMovement(k, "return", t, q)

SellInventory(k, t, q) == ApplySimpleMovement(k, "sell", t, -q)

AdjustInventory(k, t, q) ==
  \/ ApplySimpleMovement(k, "adjust", t, q)
  \/ ApplySimpleMovement(k, "adjust", t, -q)

ReserveInventory(k, t, q) ==
  /\ ~KeyUsed(k)
  /\ Available(t) >= q
  /\ reservation' = [reservation EXCEPT ![k] =
                       [target |-> t, quantity |-> q, status |-> "active"]]
  /\ PostMovement(k, t, "reserve", 0, q, k)

\* transitionReservation.  The reservation is identified by its id alone: who
\* holds it is not looked at.
TransitionReservation_AnyStatus(k, r, status) ==
  /\ ~KeyUsed(k)
  /\ Reserved(r)
  /\ LET t == reservation[r].target
         q == reservation[r].quantity
         sold == IF status = "committed" THEN q ELSE 0
     IN  /\ balance[t].reserved >= q
         /\ balance[t].onHand - sold >= balance[t].reserved - q
         /\ reservation' = [reservation EXCEPT ![r].status = status]
         /\ PostMovement(k, t, IF status = "committed" THEN "sell" ELSE "release",
                         -sold, -q, r)

TransitionReservation_KeepsStatus(k, r, status) ==
  /\ ~KeyUsed(k)
  /\ Reserved(r)
  /\ reservation[r].status = "active"
  /\ LET t == reservation[r].target
         q == reservation[r].quantity
         sold == IF status = "committed" THEN q ELSE 0
     IN  /\ balance[t].reserved >= q
         /\ balance[t].onHand - sold >= balance[t].reserved - q
         /\ UNCHANGED reservation
         /\ PostMovement(k, t, IF status = "committed" THEN "sell" ELSE "release",
                         -sold, -q, r)

TransitionReservation(k, r, status) ==
  /\ ~KeyUsed(k)
  /\ Reserved(r)
  /\ reservation[r].status = "active"
  /\ LET t == reservation[r].target
         q == reservation[r].quantity
         sold == IF status = "committed" THEN q ELSE 0
     IN  /\ balance[t].reserved >= q
         /\ balance[t].onHand - sold >= balance[t].reserved - q
         /\ reservation' = [reservation EXCEPT ![r].status = status]
         /\ PostMovement(k, t, IF status = "committed" THEN "sell" ELSE "release",
                         -sold, -q, r)

ReleaseInventoryReservation(k, r) == TransitionReservation(k, r, "released")

CommitInventoryReservation(k, r) == TransitionReservation(k, r, "committed")

Next ==
  \E k \in Keys :
    \/ \E t \in Targets, q \in Quantities :
         \/ ReceiveInventory(k, t, q)
         \/ ReturnInventory(k, t, q)
         \/ SellInventory(k, t, q)
         \/ AdjustInventory(k, t, q)
         \/ ReserveInventory(k, t, q)
    \/ \E r \in Keys :
         \/ ReleaseInventoryReservation(k, r)
         \/ CommitInventoryReservation(k, r)

Spec == Init /\ [][Next]_vars

-----------------------------------------------------------------------------
TypeOK ==
  /\ balance \in [Targets -> Balance]
  /\ reservation \in [Keys -> ReservationRow \cup {NoReservation}]
  /\ movements \in [Targets -> Seq(Movement)]

\* "available stock is never negative": whatever sequence of commands commits,
\* 0 <= reserved <= on_hand for every target, and no balance outgrows its
\* column (the CHECK constraints of migration 0007 never fire).
StockBounds ==
  \A t \in Targets :
    /\ 0 <= balance[t].reserved
    /\ balance[t].reserved <= balance[t].onHand
    /\ balance[t].onHand <= MaxStock

\* The ledger explains the balance: each movement's after-values are the
\* previous movement's plus its own deltas, the first starts from nothing, and
\* the last is the balance row (updateBalance and insertMovement agree).
LedgerExplainsBalance ==
  \A t \in Targets :
    LET ledger == movements[t]
        n == Len(ledger)
    IN  /\ \A i \in 1..n :
             /\ ledger[i].onHandAfter =
                  (IF i = 1 THEN 0 ELSE ledger[i-1].onHandAfter)
                     + ledger[i].onHandDelta
             /\ ledger[i].reservedAfter =
                  (IF i = 1 THEN 0 ELSE ledger[i-1].reservedAfter)
                     + ledger[i].reservedDelta
        /\ balance[t].onHand = (IF n = 0 THEN 0 ELSE ledger[n].onHandAfter)
        /\ balance[t].reserved = (IF n = 0 THEN 0 ELSE ledger[n].reservedAfter)

\* A command is applied at most once, however often it is retried: no two
\* movements carry the same idempotency key.
KeyAppliedOnce ==
  \A t, u \in Targets : \A i \in DOMAIN movements[t], j \in DOMAIN movements[u] :
    movements[t][i].key = movements[u][j].key => t = u /\ i = j

\* A reservation is settled at most once, and its status says how: an active
\* one has no settling movement, a released one a single release, a committed
\* one a single sale, each for the reserved quantity on the reserved target.
SettledOnce ==
  \A r \in Keys, t \in Targets : \A i \in DOMAIN movements[t] :
    LET m == movements[t][i]
    IN  (m.reservation = r /\ m.type # "reserve") =>
          /\ Reserved(r)
          /\ reservation[r].target = t
          /\ m.reservedDelta = -reservation[r].quantity
          /\ \/ m.type = "release" /\ reservation[r].status = "released"
             \/ m.type = "sell" /\ reservation[r].status = "committed"
          /\ \A j \in DOMAIN movements[t] :
               movements[t][j].reservation = r /\ movements[t][j].type # "reserve"
                 => i = j

\* The units of stock that active reservations hold of a target, each numbered
\* within its reservation.
HeldUnits(t) ==
  UNION {{r} \X (1..reservation[r].quantity) :
           r \in {l \in Keys : /\ Reserved(l)
                              /\ reservation[l].target = t
                              /\ reservation[l].status = "active"}}

\* The reserved column counts the units its active reservations hold, so it is
\* the sum of their quantities: no unit is held twice, and none is held by a
\* reservation that was settled.
ReservedIsActiveSum ==
  \A t \in Targets : balance[t].reserved = Cardinality(HeldUnits(t))

\* Once a reservation row exists its target and quantity are fixed, and it
\* leaves 'active' once and for good.
ReservationLifecycle ==
  [][\A r \in Keys : Reserved(r) =>
       /\ reservation'[r] # NoReservation
       /\ reservation'[r].target = reservation[r].target
       /\ reservation'[r].quantity = reservation[r].quantity
       /\ reservation[r].status # "active" => reservation'[r] = reservation[r]]_vars

\* Movements are immutable: a step only ever appends to a ledger.
LedgerAppendOnly ==
  [][\A t \in Targets :
       /\ Len(movements[t]) <= Len(movements'[t])
       /\ \A i \in DOMAIN movements[t] : movements'[t][i] = movements[t][i]]_vars
=============================================================================
