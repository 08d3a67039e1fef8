--------------------------- MODULE StockCommands ---------------------------
(***************************************************************************)
(* The stock commands as data: what each command asks for, line by line,   *)
(* and what each line makes of a balance.  StockContract says when they    *)
(* take effect, StockTransactions how.                                     *)
(***************************************************************************)
EXTENDS Integers, Sequences

CONSTANTS
  Keys,        \* idempotency keys
  Orders,      \* orders, each confirmed from a draft of its own
  Targets,     \* (location, variant) pairs
  OrderItems,  \* the items of each order, in the order they are processed
  Work,        \* the command a key stands for
  Stock,       \* on_hand of each target at first
  MaxStock     \* largest value of the integer columns

Line == [target : Targets, quantity : Int]

OrderCommand == [kind : {"confirm", "cancel", "ship"}, order : Orders]

\* A reservation settled by hand, and a movement of stock.
DeskCommand ==
  [kind : {"release", "commit"}, order : Orders, item : Nat \ {0}]
    \cup [kind : {"move"}, line : Line]

ASSUME StockCommandsAssumption ==
  /\ MaxStock \in Nat
  /\ Stock \in [Targets -> 0..MaxStock]
  /\ OrderItems \in [Orders -> Seq(Line)]
  /\ \A o \in Orders : OrderItems[o] # <<>>
  /\ \A o \in Orders : \A i, j \in DOMAIN OrderItems[o] :
       /\ OrderItems[o][i].quantity > 0
       /\ OrderItems[o][i].target = OrderItems[o][j].target => i = j
  /\ Work \in [Keys -> OrderCommand \cup DeskCommand]
  /\ \A k \in Keys : Work[k].kind \in {"release", "commit"} =>
       Work[k].item \in DOMAIN OrderItems[Work[k].order]

-----------------------------------------------------------------------------
Balance == [onHand : Int, reserved : Int]

\* The lines of a command, in the order the code goes through them.
Lines(k) ==
  LET w == Work[k]
  IN  CASE w.kind = "move" -> <<w.line>>
        [] w.kind \in {"release", "commit"} -> <<OrderItems[w.order][w.item]>>
        [] OTHER -> OrderItems[w.order]

Settles(k) == Work[k].kind \in {"cancel", "ship", "release", "commit"}

IsOrderCommand(k) == Work[k].kind \in {"confirm", "cancel", "ship"}

\* What a line makes of the balance of its target.
After(k, line, b) ==
  LET kind == Work[k].kind
      q == line.quantity
  IN  [onHand |-> b.onHand + (CASE kind = "move" -> q
                                [] kind \in {"ship", "commit"} -> -q
                                [] OTHER -> 0),
       reserved |-> b.reserved + (CASE kind = "confirm" -> q
                                    [] Settles(k) -> -q
                                    [] OTHER -> 0)]

InBounds(b) == 0 <= b.reserved /\ b.reserved <= b.onHand /\ b.onHand <= MaxStock

PhaseAfter(k) ==
  CASE Work[k].kind = "confirm" -> "ordered"
    [] Work[k].kind = "cancel" -> "cancelled"
    [] OTHER -> "shipped"

HoldAfter(k) ==
  CASE Work[k].kind = "confirm" -> "active"
    [] Work[k].kind \in {"ship", "commit"} -> "committed"
    [] OTHER -> "released"

LinesOn(k, t) == {i \in DOMAIN Lines(k) : Lines(k)[i].target = t}
=============================================================================
