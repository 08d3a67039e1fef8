------------------------------ MODULE Pricing ------------------------------
(***************************************************************************)
(* What a price may be: packages/domain/src/rules/pricing-policy.ts, the   *)
(* decisions that business-rule.service.ts takes from it and stores, and   *)
(* the checks that order.service.ts makes when an item is quoted and       *)
(* order-commands.ts while it is ordered.  One variant, one rule set, one  *)
(* currency, one conversation, one item of a draft: that a decision belongs*)
(* to the item's variant and to the conversation the draft is linked to is *)
(* left out.                                                               *)
(*                                                                         *)
(* Prices are in minor units.  A maximum discount is stored rounded to a   *)
(* hundredth of a percent.  A minimum percentage is stored as it is sent,  *)
(* any number from 0 to 100, and rounded when it is used: it is in units   *)
(* of which a hundredth of a percent has Precision.                        *)
(*                                                                         *)
(* The catalog and the rules are read without locks.  An offer is          *)
(* evaluated for a list price that an earlier transaction has read, an     *)
(* item quoted at one that an earlier statement has.  The rule is looked   *)
(* at once more, by a trigger, when a decision or an item is written: to   *)
(* evaluate and to quote are one step each, at that look, for a rule that  *)
(* was superseded before it is refused and one that is superseded after it *)
(* is superseded later.  Confirming is several steps, up to its commit.    *)
(***************************************************************************)
EXTENDS Integers, Sequences, FiniteSets

CONSTANTS
  Prices,       \* list prices of the variant
  Offers,       \* prices asked for
  Policies,     \* policies a manager publishes
  Precision,    \* parts of a hundredth of a percent that minimums are given in
  MaxPolicies,  \* bound on the published versions
  MaxDecisions, \* bound on the stored decisions
  NoPrice       \* SQL null

PricingPolicy ==
  [negotiable : BOOLEAN, type : {"fixed", "percentage_of_list"}, minimum : Nat,
   maxDiscount : 0..10000, belowMinimum : {"counter", "handoff", "reject"},
   whenNotNegotiable : {"handoff", "reject"}]

ASSUME PricingAssumption ==
  /\ Prices \subseteq Nat
  /\ Offers \subseteq Nat
  /\ Precision \in Nat \ {0}
  /\ Policies \subseteq PricingPolicy
  /\ \A p \in Policies :
       p.type = "percentage_of_list" => p.minimum <= 10000 * Precision
  /\ NoPrice \notin Nat

-----------------------------------------------------------------------------
\* Math.round(percentage * 100): the nearest hundredth.  Half way between two it
\* is either, as the product is a floating-point one.
BasisPoints(percentage) ==
  {h \in {percentage \div Precision, percentage \div Precision + 1} :
     2 * (h * Precision - percentage) \in -Precision..Precision}

\* The least price that is not below so many hundredths of a percent of the list
\* price.
PercentageFloor(list, hundredths) == (list * hundredths + 9999) \div 10000

MinimumPrices(policy, list) ==
  IF policy.type = "fixed" THEN {policy.minimum}
  ELSE {PercentageFloor(list, h) : h \in BasisPoints(policy.minimum)}

LowestAllowed(policy, minimum, list) ==
  LET discounted == PercentageFloor(list, 10000 - policy.maxDiscount)
  IN  IF minimum > discounted THEN minimum ELSE discounted

Decided(outcome, price) == [outcome |-> outcome, price |-> price]

PriceDecision(policy, minimum, list, offer) ==
  LET lowest == LowestAllowed(policy, minimum, list)
  IN  CASE offer >= list -> Decided("accept", list)
        [] offer < list /\ ~policy.negotiable -> Decided(policy.whenNotNegotiable, NoPrice)
        [] offer < list /\ policy.negotiable /\ offer >= lowest -> Decided("accept", offer)
        [] OTHER -> Decided(policy.belowMinimum,
                            IF policy.belowMinimum = "counter" THEN lowest ELSE NoPrice)

-----------------------------------------------------------------------------
VARIABLES
  listPrice,  \* price_override or base_price, NoPrice while not on sale
  policies,   \* the versions published so far: the last is 'published'
  seen,       \* the list price an evaluation is made for
  quoting,    \* the list price an item is being quoted at
  decision,   \* pricing_decisions: [list, version, outcome, price]
  item,       \* the item of the draft and how far its confirmation is
  onOffer     \* the list prices there were since the confirmation began

pricingVars == <<listPrice, policies, seen, quoting, decision, item, onOffer>>

ByNoDecision == [list |-> 0, version |-> 0, outcome |-> "none", price |-> NoPrice]

\* quoted: in draft_order_items.  confirming: the confirm command has the locks of
\* its key and of the draft.  checked: it has found the item all right.  written:
\* it has inserted the row of order_items.  ordered: it has committed.
NoItem == [step |-> "none", list |-> 0, price |-> 0, by |-> ByNoDecision]

InConfirm == item.step \in {"confirming", "checked", "written"}

PricingInit ==
  /\ listPrice \in Prices
  /\ policies = << >>
  /\ seen = NoPrice
  /\ quoting = NoPrice
  /\ decision = {}
  /\ item = NoItem
  /\ onOffer = {}

InForce == policies[Len(policies)]

\* ProductService update, publish, archive, restore.
ChangeListPrice ==
  /\ listPrice' \in (Prices \cup {NoPrice}) \ {listPrice}
  /\ onOffer' = IF InConfirm THEN onOffer \cup ({listPrice'} \ {NoPrice}) ELSE {}
  /\ UNCHANGED <<policies, seen, quoting, decision, item>>

PublishPolicy ==
  /\ Len(policies) < MaxPolicies
  /\ \E p \in Policies : policies' = Append(policies, p)
  /\ UNCHANGED <<listPrice, seen, quoting, decision, item, onOffer>>

\* evaluatePriceOffer and getEffectivePrice read the product first.
ReadListPrice ==
  /\ seen = NoPrice
  /\ listPrice # NoPrice
  /\ seen' = listPrice
  /\ UNCHANGED <<listPrice, policies, quoting, decision, item, onOffer>>

\* BusinessRuleService.evaluate, which throws where the minimum exceeds the list
\* price.
EvaluateOffer(offer) ==
  /\ seen # NoPrice
  /\ seen' = NoPrice
  /\ \/ policies = << >> /\ UNCHANGED decision
     \/ /\ policies # << >>
        /\ \E minimum \in MinimumPrices(InForce, seen) :
             \/ minimum > seen /\ UNCHANGED decision
             \/ LET d == PriceDecision(InForce, minimum, seen, offer)
                    row == [list |-> seen, version |-> Len(policies),
                            outcome |-> d.outcome, price |-> d.price]
                IN  /\ minimum <= seen
                    /\ decision' = decision \cup {row}
                    /\ Cardinality(decision') <= MaxDecisions
  /\ UNCHANGED <<listPrice, policies, quoting, item, onOffer>>

\* A decision holds for a list price as long as it was taken for that price, from
\* the published version.
Holds(d, list) ==
  /\ d.list = list
  /\ d.outcome \in {"accept", "counter"}
  /\ d.version = Len(policies)

\* The first select of quoteItems, under the lock of the draft.
StartQuote ==
  /\ item.step \in {"none", "quoted"}
  /\ quoting = NoPrice
  /\ listPrice # NoPrice
  /\ quoting' = listPrice
  /\ UNCHANGED <<listPrice, policies, seen, decision, item, onOffer>>

\* The rest of it: at the list price, or at the price of a decision; or it fails.
QuoteItem ==
  /\ quoting # NoPrice
  /\ quoting' = NoPrice
  /\ \/ item' = [step |-> "quoted", list |-> quoting, price |-> quoting,
                 by |-> ByNoDecision]
     \/ \E d \in decision :
          /\ Holds(d, quoting)
          /\ item' = [step |-> "quoted", list |-> quoting, price |-> d.price, by |-> d]
     \/ UNCHANGED item
  /\ UNCHANGED <<listPrice, policies, seen, decision, onOffer>>

-----------------------------------------------------------------------------
(* confirmDraftOrder, by the statements that matter for the price.         *)

BeginConfirm ==
  /\ item.step = "quoted"
  /\ quoting = NoPrice
  /\ item' = [item EXCEPT !.step = "confirming"]
  /\ onOffer' = {listPrice} \ {NoPrice}
  /\ UNCHANGED <<listPrice, policies, seen, quoting, decision>>

\* The price of the item is its list price, or that of a decision that holds.
Backed ==
  IF item.by = ByNoDecision THEN item.price = item.list
  ELSE Holds(item.by, item.list) /\ item.by.price = item.price

\* One select over the items, the catalog, the decisions and the rules.
CheckItem ==
  /\ item.step = "confirming"
  /\ item.list = listPrice
  /\ Backed
  /\ item' = [item EXCEPT !.step = "checked"]
  /\ UNCHANGED <<listPrice, policies, seen, quoting, decision, onOffer>>

\* The row is inserted when the balance is locked and the stock reserved, however
\* long that took.  app_validate_order_item_pricing looks at the decision and its
\* rule again, and not at the catalog.
WriteItem_NoTrigger ==
  /\ item.step = "checked"
  /\ item' = [item EXCEPT !.step = "written"]
  /\ UNCHANGED <<listPrice, policies, seen, quoting, decision, onOffer>>

WriteItem ==
  /\ item.step = "checked"
  /\ Backed
  /\ item' = [item EXCEPT !.step = "written"]
  /\ UNCHANGED <<listPrice, policies, seen, quoting, decision, onOffer>>

CommitConfirm ==
  /\ item.step = "written"
  /\ item' = [item EXCEPT !.step = "ordered"]
  /\ onOffer' = {}
  /\ UNCHANGED <<listPrice, policies, seen, quoting, decision>>

\* A check fails, stock is short, or the connection is lost.
RollBackConfirm ==
  /\ InConfirm
  /\ item' = [item EXCEPT !.step = "quoted"]
  /\ onOffer' = {}
  /\ UNCHANGED <<listPrice, policies, seen, quoting, decision>>

PricingNext ==
  \/ ChangeListPrice
  \/ PublishPolicy
  \/ ReadListPrice
  \/ \E offer \in Offers : EvaluateOffer(offer)
  \/ StartQuote
  \/ QuoteItem
  \/ BeginConfirm
  \/ CheckItem
  \/ WriteItem
  \/ CommitConfirm
  \/ RollBackConfirm

PricingSpec == PricingInit /\ [][PricingNext]_pricingVars

-----------------------------------------------------------------------------
DecisionRow ==
  [list : Nat, version : Nat, price : Nat \cup {NoPrice},
   outcome : {"accept", "counter", "handoff", "reject", "none"}]

PricingTypeOK ==
  /\ listPrice \in Nat \cup {NoPrice}
  /\ policies \in Seq(PricingPolicy)
  /\ seen \in Nat \cup {NoPrice}
  /\ quoting \in Nat \cup {NoPrice}
  /\ decision \subseteq DecisionRow
  /\ item \in [step : {"none", "quoted", "confirming", "checked", "written", "ordered"},
               list : Nat, price : Nat \cup {NoPrice}, by : DecisionRow]
  /\ onOffer \subseteq Nat

\* What a policy lets a variant be sold for below its list price.  Of a minimum
\* percentage, up to half a hundredth of a percent of the list price may be
\* missing: percentageFloor rounds the percentage to the nearest hundredth, down
\* too.
WithinPolicy(policy, list, price) ==
  /\ policy.negotiable
  /\ price <= list
  /\ IF policy.type = "fixed" THEN price >= policy.minimum
     ELSE price * (20000 * Precision) >= list * (2 * policy.minimum - Precision)
  /\ price * 10000 >= list * (10000 - policy.maxDiscount)

\* Whatever changes between an offer, its evaluation, the quote and the approval,
\* and while the confirm command waits for stock: an item is written into an order
\* at its list price, or at one within the policy in force at that moment, though
\* the policy was checked earlier; and when the order commits, that list price is
\* one the product was on sale at since the command began.
OrderedWithinPolicy ==
  [][/\ item.step # "written" /\ item'.step = "written" =>
          \/ item.price = item.list
          \/ /\ policies # << >>
             /\ item.price \in Nat
             /\ WithinPolicy(InForce, item.list, item.price)
     /\ item.step # "ordered" /\ item'.step = "ordered" =>
          item.list \in onOffer]_pricingVars
=============================================================================
