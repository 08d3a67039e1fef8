--------------------------- MODULE StockContract ---------------------------
(***************************************************************************)
(* What the stock commands promise a client, with no transactions in       *)
(* sight: a command takes effect at one instant, on all of its lines or on *)
(* none, once however often it is sent, and only where it leaves every     *)
(* target with 0 <= reserved <= onHand.                                    *)
(*                                                                         *)
(* Module StockTransactions implements this contract with the locks of     *)
(* packages/db/src/inventory-commands.ts and order-commands.ts.            *)
(***************************************************************************)
EXTENDS StockCommands

VARIABLES
  balance,  \* inventory_balances
  hold,     \* status of the reservation of each order item
  phase,    \* how far each order is
  applied   \* keys of the commands that have taken effect

vars == <<balance, hold, phase, applied>>

-----------------------------------------------------------------------------
\* 'confirmed' and 'preparing' orders are both "ordered" here.
PhaseAllows(k) ==
  CASE Work[k].kind = "confirm" -> phase[Work[k].order] = "draft"
    [] Work[k].kind \in {"cancel", "ship"} -> phase[Work[k].order] = "ordered"
    [] OTHER -> TRUE

-----------------------------------------------------------------------------
Init ==
  /\ balance = [t \in Targets |-> [onHand |-> Stock[t], reserved |-> 0]]
  /\ hold = [o \in Orders |-> [t \in Targets |-> "none"]]
  /\ phase = [o \in Orders |-> "draft"]
  /\ applied = {}

\* What a command leaves in hold and phase.
Record(k) ==
  /\ hold' = IF Work[k].kind = "move" THEN hold
             ELSE [hold EXCEPT ![Work[k].order] =
                     [t \in Targets |-> IF LinesOn(k, t) # {} THEN HoldAfter(k)
                                                             ELSE @[t]]]
  /\ phase' = IF IsOrderCommand(k)
              THEN [phase EXCEPT ![Work[k].order] = PhaseAfter(k)] ELSE phase
  /\ applied' = applied \cup {k}

Apply(k) ==
  /\ k \notin applied
  /\ PhaseAllows(k)
  /\ \A i \in DOMAIN Lines(k) :
       LET line == Lines(k)[i]
       IN  /\ Settles(k) => hold[Work[k].order][line.target] = "active"
           /\ InBounds(After(k, line, balance[line.target]))
  /\ balance' = [t \in Targets |->
       IF LinesOn(k, t) = {} THEN balance[t]
       ELSE After(k, Lines(k)[CHOOSE i \in LinesOn(k, t) : TRUE], balance[t])]
  /\ Record(k)

Next == \E k \in Keys : Apply(k)

Spec == Init /\ [][Next]_vars
=============================================================================
