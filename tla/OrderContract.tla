--------------------------- MODULE OrderContract ---------------------------
(***************************************************************************)
(* What the order service promises whoever works on a draft, clerk or      *)
(* agent: a draft is edited by one command at a time, each of which makes  *)
(* a new version; only a draft that was submitted and not touched since    *)
(* becomes an order, and then both stay as they are; an order is made      *)
(* once, and so is what a key asked for.                                   *)
(*                                                                         *)
(* Modules Orders and AgentTurns look at the service from two sides, the   *)
(* stock it holds and the conversation it serves.  Both implement this.    *)
(***************************************************************************)
EXTENDS Integers

CONSTANTS
  Drafts,    \* draft order ids
  Keys,      \* idempotency keys of the commands that make an order
  Contents,  \* what a draft asks for
  Nothing    \* what an absent draft asks for

VARIABLES
  draft,     \* draft_orders: status, version and what they ask for
  placed     \* orders: the key, the draft and the items that never change

vars == <<draft, placed>>

-----------------------------------------------------------------------------
Init ==
  /\ draft = [d \in Drafts |-> [status |-> "absent", version |-> 0, content |-> Nothing]]
  /\ placed = {}

Create(d, c) ==
  /\ draft[d].status = "absent"
  /\ draft' = [draft EXCEPT ![d] = [status |-> "draft", version |-> 1, content |-> c]]
  /\ UNCHANGED placed

\* The next version of a draft that is still open.
Revise(d, status, c) ==
  /\ draft[d].status \in {"draft", "awaiting_confirmation"}
  /\ draft' = [draft EXCEPT ![d] = [status |-> status, version |-> draft[d].version + 1,
                                    content |-> c]]
  /\ UNCHANGED placed

Edit(d, c) == Revise(d, "draft", c)

Submit(d) ==
  draft[d].status = "draft" /\ Revise(d, "awaiting_confirmation", draft[d].content)

Cancel(d) == Revise(d, "cancelled", draft[d].content)

Place(k, d) ==
  /\ draft[d].status = "awaiting_confirmation"
  /\ \A p \in placed : p.key # k
  /\ placed' = placed \cup {[key |-> k, draft |-> d, content |-> draft[d].content]}
  /\ draft' = [draft EXCEPT ![d].status = "confirmed"]

Next ==
  \E d \in Drafts :
    \/ \E c \in Contents : Create(d, c) \/ Edit(d, c)
    \/ Submit(d)
    \/ Cancel(d)
    \/ \E k \in Keys : Place(k, d)

Spec == Init /\ [][Next]_vars
=============================================================================
