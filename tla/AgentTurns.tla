---------------------------- MODULE AgentTurns ----------------------------
(***************************************************************************)
(* The turns of the customer agent, those that take an order above all:    *)
(* #order of packages/customer-agent/src/runtime.ts, the tools it calls    *)
(* (apps/api/src/customer-agent/customer-agent-data-source.ts), and the    *)
(* order service behind them, for one conversation.                        *)
(*                                                                         *)
(* A turn answers one message of the customer.  It reads the conversation  *)
(* once, then works through tool calls.  A call that changes something     *)
(* first reloads the conversation and compares its link (..Check), then    *)
(* runs the transaction of the order service (..Act); in between, another  *)
(* turn, a clerk or a member may act.  A call that times out leaves its    *)
(* transaction behind, to commit later or never: late.  A turn that fails  *)
(* is tried again, and a newer message starts a turn of its own while an   *)
(* older one is still at work.                                             *)
(*                                                                         *)
(* What a draft asks for (items, prices) is its content, named by the      *)
(* version that wrote it.  An order is known by the idempotency key of the *)
(* command that made it, which for the agent is the approving message.     *)
(***************************************************************************)
EXTENDS Integers, FiniteSets

CONSTANTS
  Messages,    \* inbound messages of the customer
  Drafts,      \* draft order ids
  DeskKeys,    \* idempotency keys of the clerks
  MaxVersion,  \* bound on the version of a draft
  MaxWrites,   \* bound on the versions of all drafts together
  MaxTries,    \* bound on the turns of one message
  MaxRetried,  \* bound on the messages that have more than one
  MaxLate,     \* bound on the commands left behind at one time
  Null         \* SQL null

Keys == Messages \cup DeskKeys

ASSUME AgentTurnsAssumption ==
  /\ MaxVersion \in Nat \ {0}
  /\ MaxWrites \in Nat
  /\ MaxTries \in Nat \ {0}
  /\ MaxRetried \in Nat
  /\ MaxLate \in Nat
  /\ Messages \cap DeskKeys = {}
  /\ Null \notin Messages \cup DeskKeys \cup Drafts

\* What routeCustomerIntent makes of a message; one that is not about an order is
\* "ask".
Intents == {"create", "update", "cancel", "confirm", "affirm", "ask"}

DraftStatus == {"absent", "draft", "awaiting_confirmation", "confirmed", "cancelled"}

Checks == {"save", "submit", "confirm", "cancel"}
Acts == {"saving", "submitting", "confirming", "cancelling"}
Steps == {"idle", "load", "answer", "ended"} \cup Checks \cup Acts

\* Clarifications, and what else names no draft, are "other".
ReplyKind == {"none", "other", "handoff", "summary", "ordered", "cancelled"}

Versions == 0..MaxVersion

Reply == [kind : ReplyKind, draft : Drafts \cup {Null}, content : Versions]

NoReply == [kind |-> "none", draft |-> Null, content |-> 0]

Says(kind, d, c) == [kind |-> kind, draft |-> d, content |-> c]

OrderRow ==
  [draft : Drafts, version : Versions, content : Versions, status : {"confirmed", "moved"}]

NoOrder == [draft |-> Null, version |-> 0, content |-> 0, status |-> "none"]

NoDraft == [status |-> "absent", version |-> 0, content |-> 0,
            complete |-> FALSE, agent |-> FALSE]

VARIABLES
  intent,    \* what each message asks, "none" before it is received
  latest,    \* the latest inbound message
  said,      \* the stored reply to each message
  botOwns,   \* conversations.status is 'bot'
  link,      \* conversations.draft_order_id
  ordered,   \* conversations.order_id
  relinked,  \* a member has changed the links
  draft,     \* draft_orders
  order,     \* orders and order_commands, by key
  summary,   \* the last draft the customer was shown: [draft, content]
  turn,      \* the turn of each message
  late       \* commands whose caller has given up on them

conversation == <<botOwns, link, ordered, relinked>>
vars == <<intent, latest, said, conversation, draft, order, summary, turn, late>>

Fresh == [step |-> "idle", draft |-> Null, version |-> 0, ordered |-> FALSE,
          reply |-> NoReply, tries |-> 0]

Init ==
  /\ intent = [m \in Messages |-> "none"]
  /\ latest = Null
  /\ said = [m \in Messages |-> NoReply]
  /\ botOwns = TRUE
  /\ link = Null
  /\ ordered = Null
  /\ relinked = FALSE
  /\ draft = [d \in Drafts |-> NoDraft]
  /\ order = [k \in Keys |-> NoOrder]
  /\ summary = [draft |-> Null, content |-> 0]
  /\ turn = [m \in Messages |-> Fresh]
  /\ late = {}

Active(d) == d # Null /\ draft[d].status \in {"draft", "awaiting_confirmation"}

\* loadCustomerDefaults: what is known of the customer, or written in the message,
\* may complete the phone and the address of a draft.
Completion == BOOLEAN

\* The bounds on versions: a draft, and all of them, may take another one.
Writes == UNION {{d} \X (1..draft[d].version) : d \in Drafts}

Room(d) == draft[d].version < MaxVersion /\ Cardinality(Writes) < MaxWrites

\* The commands of the order service the agent uses: guard, then effect.

CanCreate_AnyLink(d) == draft[d].status = "absent" /\ botOwns

CanCreate(d) ==
  /\ draft[d].status = "absent"
  /\ botOwns
  /\ ~Active(link)

CreateDraft(d, full) ==
  /\ draft' = [draft EXCEPT ![d] =
       [status |-> "draft", version |-> 1, content |-> 1, complete |-> full,
        agent |-> TRUE]]
  /\ link' = d
  /\ UNCHANGED <<botOwns, ordered, relinked, order>>

CanUpdate(d, v) == Active(d) /\ draft[d].version = v /\ Room(d)

UpdateDraft(d, complete) ==
  /\ draft' = [draft EXCEPT ![d].status = "draft", ![d].version = @ + 1,
                            ![d].content = draft[d].version + 1, ![d].complete = complete]
  /\ UNCHANGED <<conversation, order>>

\* The agent sends a phone and an address only when the message has one.
AgentUpdates(d, full) == UpdateDraft(d, draft[d].complete \/ full)

CanSubmit_Incomplete(d, v) ==
  draft[d].status = "draft" /\ draft[d].version = v /\ Room(d)

CanSubmit(d, v) ==
  /\ draft[d].status = "draft"
  /\ draft[d].version = v
  /\ draft[d].complete
  /\ Room(d)

SubmitDraft(d) ==
  /\ draft' = [draft EXCEPT ![d].status = "awaiting_confirmation", ![d].version = @ + 1]
  /\ UNCHANGED <<conversation, order>>

CanCancel(d, v) ==
  \/ draft[d].status = "cancelled"
  \/ Active(d) /\ draft[d].version = v /\ Room(d)

CancelDraft(d) ==
  /\ draft' = IF draft[d].status = "cancelled" THEN draft
              ELSE [draft EXCEPT ![d].status = "cancelled", ![d].version = @ + 1]
  /\ UNCHANGED <<conversation, order>>

\* confirmDraftOrder: a command seen before is replayed, another one with its key
\* is refused.
Replayed(k, d, v) == order[k] # NoOrder /\ order[k].draft = d /\ order[k].version = v

CanConfirm_AnyStatus(k, d, v) ==
  \/ Replayed(k, d, v)
  \/ /\ order[k] = NoOrder
     /\ draft[d].status \in {"awaiting_confirmation", "confirmed"}

CanConfirm(k, d, v) ==
  \/ Replayed(k, d, v)
  \/ /\ order[k] = NoOrder
     /\ draft[d].status = "awaiting_confirmation"
     /\ draft[d].version = v

ConfirmDraft(k, d, v) ==
  IF Replayed(k, d, v) THEN UNCHANGED <<draft, order>>
  ELSE /\ draft' = [draft EXCEPT ![d].status = "confirmed"]
       /\ order' = [order EXCEPT ![k] = [draft |-> d, version |-> v,
            content |-> draft[d].content, status |-> "confirmed"]]

\* The order is linked in the same transaction, or nothing happens.
CanLinkOrder(k, d) == link = d /\ ordered \in {Null, k}

AgentConfirms(k, d, v) ==
  /\ CanConfirm(k, d, v)
  /\ CanLinkOrder(k, d)
  /\ ConfirmDraft(k, d, v)
  /\ ordered' = k
  /\ UNCHANGED <<botOwns, link, relinked>>

-----------------------------------------------------------------------------
(* Turns.                                                                  *)

At(m, step) == turn[m].step = step

GoTo(m, step) == turn' = [turn EXCEPT ![m].step = step]

Answer(m, reply) ==
  turn' = [turn EXCEPT ![m] = [Fresh EXCEPT !.step = "answer", !.reply = reply,
                                            !.tries = turn[m].tries]]

Receive(m) ==
  /\ intent[m] = "none"
  /\ \E i \in Intents : intent' = [intent EXCEPT ![m] = i]
  /\ latest' = m
  /\ UNCHANGED <<said, conversation, draft, order, summary, turn, late>>

\* What an order message without a linked draft is told.
NoActiveDraft == {Says("other", Null, 0)}

\* A question is answered from queries (#direct), or by a model whose tools only
\* read and whose answer is verified; either may end with a handoff.  Neither
\* touches an order.
Direct == {Says("other", Null, 0), Says("handoff", Null, 0)}
Composed == {Says("other", Null, 0), Says("handoff", Null, 0)}

Retried == {m \in Messages : turn[m].tries > 1}

\* CustomerAgentService.reply reads the conversation.  Without a linked draft
\* only a purchase goes on.
Begin(m) ==
  /\ At(m, "idle")
  /\ m = latest
  /\ botOwns
  /\ said[m] = NoReply
  /\ turn[m].tries < MaxTries
  /\ turn[m].tries > 0 => Cardinality(Retried \cup {m}) <= MaxRetried
  /\ \E step \in Steps, reply \in Direct \cup Composed \cup {NoReply} :
       /\ CASE intent[m] = "ask"    -> step = "answer" /\ reply \in Direct \cup Composed
            [] link # Null          -> step = "load" /\ reply = NoReply
            [] intent[m] = "create" -> step = "save" /\ reply = NoReply
            [] OTHER                -> step = "answer" /\ reply \in NoActiveDraft
       /\ turn' = [turn EXCEPT ![m] =
            [step |-> step, draft |-> link, version |-> 0, ordered |-> ordered # Null,
             reply |-> reply, tries |-> @.tries + 1]]
  /\ UNCHANGED <<intent, latest, said, conversation, draft, order, summary, late>>

\* Whether the draft may be edited decides between a change and a new draft.
Edit(m, d) ==
  IF Active(d)
  THEN turn' = [turn EXCEPT ![m].step = "save", ![m].version = draft[d].version]
  ELSE IF intent[m] = "create"
       THEN turn' = [turn EXCEPT ![m].step = "save", ![m].draft = Null]
       ELSE Answer(m, Says("other", Null, 0))

Affirm(m, d) ==
  Answer(m, IF draft[d].status = "awaiting_confirmation"
            THEN Says("summary", d, draft[d].content)
            ELSE Says("other", Null, 0))

AskCancel(m, d) ==
  IF draft[d].status = "cancelled" THEN Answer(m, Says("cancelled", d, 0))
  ELSE IF draft[d].status = "confirmed" \/ turn[m].ordered
       THEN Answer(m, Says("handoff", Null, 0))
       ELSE turn' = [turn EXCEPT ![m].step = "cancel", ![m].version = draft[d].version]

AskConfirm(m, d) ==
  IF draft[d].status # "awaiting_confirmation" /\ ~turn[m].ordered
  THEN Answer(m, Says("other", Null, 0))
  ELSE turn' = [turn EXCEPT ![m].step = "confirm", ![m].version = draft[d].version]

\* get_draft_order, and what #order makes of the draft.
Load(m) ==
  LET d == turn[m].draft
  IN  /\ At(m, "load")
      /\ IF link # d THEN Answer(m, Says("handoff", Null, 0))
         ELSE CASE intent[m] = "cancel"  -> AskCancel(m, d)
                [] intent[m] = "confirm" -> AskConfirm(m, d)
                [] intent[m] = "affirm"  -> Affirm(m, d)
                [] OTHER                 -> Edit(m, d)
      /\ UNCHANGED <<intent, latest, said, conversation, draft, order, summary, late>>

\* The link is as the turn read it; a new draft needs the linked one to be done.
LinkStands(m) ==
  IF turn[m].draft # Null THEN link = turn[m].draft
  ELSE ~Active(link)

ActOf == [save |-> "saving", submit |-> "submitting", cancel |-> "cancelling",
          confirm |-> "confirming"]

\* The queries for the product, its price and its stock, which may not be there.
MayBeUnavailable(m) == turn[m].step \in {"save", "submit"}

\* The reload before save, submit and cancel.
Check(m) ==
  /\ turn[m].step \in Checks \ {"confirm"}
  /\ \/ LinkStands(m) /\ GoTo(m, ActOf[turn[m].step])
     \/ (~LinkStands(m) \/ MayBeUnavailable(m)) /\ Answer(m, Says("other", Null, 0))
  /\ UNCHANGED <<intent, latest, said, conversation, draft, order, summary, late>>

\* confirmDraftOrder of the data source returns the linked order if there is one;
\* mapOrder throws if that order has moved on.
ConfirmCheck(m) ==
  /\ At(m, "confirm")
  /\ IF link # turn[m].draft THEN Answer(m, Says("other", Null, 0))
     ELSE IF ordered = Null THEN GoTo(m, "confirming")
     ELSE IF order[ordered].draft # turn[m].draft THEN Answer(m, Says("other", Null, 0))
     ELSE IF order[ordered].status = "confirmed"
          THEN Answer(m, Says("ordered", turn[m].draft, order[ordered].content))
          ELSE Answer(m, Says("handoff", Null, 0))
  /\ UNCHANGED <<intent, latest, said, conversation, draft, order, summary, late>>

\* A saved draft that lacks a phone or an address is asked for; a complete one is
\* submitted next.
Saved(m, d) ==
  IF draft'[d].complete
  THEN turn' = [turn EXCEPT ![m].step = "submit", ![m].draft = d,
                            ![m].version = draft'[d].version]
  ELSE Answer(m, Says("other", Null, 0))

Refused(m) ==
  /\ Answer(m, Says("other", Null, 0))
  /\ UNCHANGED <<conversation, draft, order>>

SaveAct(m) ==
  LET d == turn[m].draft
  IN  /\ At(m, "saving")
      /\ \/ /\ d = Null
            /\ \E e \in Drafts, full \in Completion :
                 CanCreate(e) /\ CreateDraft(e, full) /\ Saved(m, e)
         \/ /\ d # Null /\ CanUpdate(d, turn[m].version)
            /\ \E full \in Completion :
                 AgentUpdates(d, full) /\ Saved(m, d)
         \/ /\ IF d = Null THEN \A e \in Drafts : ~CanCreate(e)
                           ELSE ~CanUpdate(d, turn[m].version)
            /\ Refused(m)
      /\ UNCHANGED <<intent, latest, said, summary, late>>

SubmitAct(m) ==
  LET d == turn[m].draft
  IN  /\ At(m, "submitting")
      /\ IF CanSubmit(d, turn[m].version)
         THEN SubmitDraft(d) /\ Answer(m, Says("summary", d, draft[d].content))
         ELSE Refused(m)
      /\ UNCHANGED <<intent, latest, said, summary, late>>

\* The stock may have run out.
ConfirmAct(m) ==
  LET d == turn[m].draft
  IN  /\ At(m, "confirming")
      /\ \/ /\ AgentConfirms(m, d, turn[m].version)
            /\ Answer(m, IF order'[m].status = "confirmed"
                         THEN Says("ordered", d, order'[m].content)
                         ELSE Says("other", Null, 0))
         \/ ~Replayed(m, d, turn[m].version) /\ Refused(m)
         \/ ~CanLinkOrder(m, d) /\ Refused(m)
      /\ UNCHANGED <<intent, latest, said, summary, late>>

CancelAct_Blind(m) ==
  LET d == turn[m].draft
  IN  /\ At(m, "cancelling")
      /\ IF CanCancel(d, turn[m].version)
         THEN CancelDraft(d) /\ Answer(m, Says("cancelled", d, 0))
         ELSE Answer(m, Says("cancelled", d, 0)) /\ UNCHANGED <<conversation, draft, order>>
      /\ UNCHANGED <<intent, latest, said, summary, late>>

CancelAct(m) ==
  LET d == turn[m].draft
  IN  /\ At(m, "cancelling")
      /\ IF CanCancel(d, turn[m].version)
         THEN CancelDraft(d) /\ Answer(m, Says("cancelled", d, 0))
         ELSE Refused(m)
      /\ UNCHANGED <<intent, latest, said, summary, late>>

\* The trace is recorded, then the reply stored: by the bot only.
StoreReply(m) ==
  /\ At(m, "answer")
  /\ turn' = [turn EXCEPT ![m] = [Fresh EXCEPT !.step = "ended"]]
  /\ IF botOwns /\ said[m] = NoReply
     THEN /\ said' = [said EXCEPT ![m] = turn[m].reply]
          /\ botOwns' = (turn[m].reply.kind # "handoff")
          /\ summary' = IF turn[m].reply.kind = "summary"
                        THEN [draft |-> turn[m].reply.draft, content |-> turn[m].reply.content]
                        ELSE summary
     ELSE UNCHANGED <<said, botOwns, summary>>
  /\ UNCHANGED <<intent, latest, link, ordered, relinked, draft, order, late>>

Pending(m) == [act |-> turn[m].step, message |-> m, draft |-> turn[m].draft,
               version |-> turn[m].version]

LeftBehind(m) ==
  \/ UNCHANGED late
  \/ /\ turn[m].step \in Acts
     /\ Cardinality(late) < MaxLate
     /\ late' = late \cup {Pending(m)}

\* A tool call exceeds its time limit or fails: handed over to a human.
ToolFails(m) ==
  /\ turn[m].step \in Checks \cup Acts \cup {"load"}
  /\ Answer(m, Says("handoff", Null, 0))
  /\ LeftBehind(m)
  /\ UNCHANGED <<intent, latest, said, conversation, draft, order, summary>>

\* The process dies or the trace is not recorded: the job is tried again.
TurnFails(m) ==
  /\ turn[m].step \notin {"idle", "ended"}
  /\ turn' = [turn EXCEPT ![m] = [Fresh EXCEPT !.tries = turn[m].tries]]
  /\ LeftBehind(m)
  /\ UNCHANGED <<intent, latest, said, conversation, draft, order, summary>>

\* A command nobody waits for commits after all.
LateCommit(c) ==
  /\ late' = late \ {c}
  /\ \/ /\ c.act = "saving" /\ c.draft = Null
        /\ \E e \in Drafts, full \in Completion :
             CanCreate(e) /\ CreateDraft(e, full)
     \/ /\ c.act = "saving" /\ c.draft # Null
        /\ CanUpdate(c.draft, c.version)
        /\ \E full \in Completion : AgentUpdates(c.draft, full)
     \/ /\ c.act = "submitting" /\ CanSubmit(c.draft, c.version)
        /\ SubmitDraft(c.draft)
     \/ c.act = "confirming" /\ AgentConfirms(c.message, c.draft, c.version)
     \/ /\ c.act = "cancelling" /\ CanCancel(c.draft, c.version)
        /\ CancelDraft(c.draft)
  /\ UNCHANGED <<intent, latest, said, summary, turn>>

-----------------------------------------------------------------------------
(* Clerks and members, through the same order service.                     *)

\* A clerk may also take the name, the phone or the address out of a draft.
DeskEdit(d) ==
  /\ CanUpdate(d, draft[d].version)
  /\ \E complete \in BOOLEAN : UpdateDraft(d, complete)
  /\ UNCHANGED <<intent, latest, said, summary, turn, late>>

DeskSubmit(d) ==
  /\ CanSubmit(d, draft[d].version)
  /\ SubmitDraft(d)
  /\ UNCHANGED <<intent, latest, said, summary, turn, late>>

DeskCancel(d) ==
  /\ Active(d) /\ CanCancel(d, draft[d].version)
  /\ CancelDraft(d)
  /\ UNCHANGED <<intent, latest, said, summary, turn, late>>

DeskConfirm(k, d) ==
  /\ order[k] = NoOrder
  /\ CanConfirm(k, d, draft[d].version)
  /\ ConfirmDraft(k, d, draft[d].version)
  /\ UNCHANGED <<intent, latest, said, conversation, summary, turn, late>>

\* transitionOrder and cancelOrder.
OrderMoves(k) ==
  /\ order[k].status = "confirmed"
  /\ order' = [order EXCEPT ![k].status = "moved"]
  /\ UNCHANGED <<intent, latest, said, conversation, draft, summary, turn, late>>

TakeOver ==
  /\ botOwns' = ~botOwns
  /\ UNCHANGED <<intent, latest, said, link, ordered, relinked, draft, order,
                 summary, turn, late>>

\* updateLinks: the member sets the draft and the order as they like; here once.
Relink ==
  /\ ~relinked
  /\ link' \in {d \in Drafts : draft[d].status # "absent"} \cup {Null}
  /\ ordered' \in {k \in Keys : order[k] # NoOrder} \cup {Null}
  /\ <<link, ordered>>' # <<link, ordered>>
  /\ relinked' = TRUE
  /\ UNCHANGED <<intent, latest, said, botOwns, draft, order, summary, turn, late>>

TurnNext(m) ==
  \/ Begin(m)
  \/ Load(m)
  \/ Check(m)
  \/ ConfirmCheck(m)
  \/ SaveAct(m)
  \/ SubmitAct(m)
  \/ ConfirmAct(m)
  \/ CancelAct(m)
  \/ StoreReply(m)
  \/ ToolFails(m)
  \/ TurnFails(m)

Next ==
  \/ \E m \in Messages : Receive(m) \/ TurnNext(m)
  \/ \E c \in late : LateCommit(c)
  \/ \E d \in Drafts :
       \/ DeskEdit(d)
       \/ DeskSubmit(d)
       \/ DeskCancel(d)
       \/ \E k \in DeskKeys : DeskConfirm(k, d)
  \/ \E k \in Keys : OrderMoves(k)
  \/ TakeOver
  \/ Relink

Spec == Init /\ [][Next]_vars

-----------------------------------------------------------------------------
Command == [act : Acts, message : Messages, draft : Drafts \cup {Null},
            version : Versions]

TypeOK ==
  /\ intent \in [Messages -> Intents \cup {"none"}]
  /\ latest \in Messages \cup {Null}
  /\ said \in [Messages -> Reply]
  /\ botOwns \in BOOLEAN
  /\ link \in Drafts \cup {Null}
  /\ ordered \in Keys \cup {Null}
  /\ relinked \in BOOLEAN
  /\ draft \in [Drafts ->
       [status : DraftStatus, version : Versions,
        content : Versions, complete : BOOLEAN, agent : BOOLEAN]]
  /\ order \in [Keys -> OrderRow \cup {NoOrder}]
  /\ summary \in [draft : Drafts \cup {Null}, content : Versions]
  /\ turn \in [Messages ->
       [step : Steps, draft : Drafts \cup {Null}, version : Versions,
        ordered : BOOLEAN, reply : Reply, tries : 0..MaxTries]]
  /\ late \subseteq Command
  /\ \A d \in Drafts : draft[d].status = "awaiting_confirmation" => draft[d].complete

\* The agent never loses sight of a draft it made, nor makes a second one beside
\* it: retries, late commits and concurrent turns included.  Only a member who
\* changes the links can leave one behind.
ActiveDraftIsLinked ==
  ~relinked => \A d \in Drafts : draft[d].agent /\ Active(d) => link = d

\* One approval makes at most one order, and a draft becomes at most one: two
\* approvals in flight, a clerk's confirmation and a repeated call included.  The
\* agent's order is linked, so that the next turn sees it.
OneOrderPerDraft ==
  /\ \A j, k \in Keys :
       order[j] # NoOrder /\ order[k] # NoOrder /\ order[j].draft = order[k].draft => j = k
  /\ \A k \in Keys : order[k] # NoOrder => draft[order[k].draft].status = "confirmed"
  /\ \A m \in Messages : order[m] # NoOrder =>
       intent[m] = "confirm" /\ (relinked \/ ordered = m)

DraftView ==
  [d \in Drafts |-> [status |-> draft[d].status, version |-> draft[d].version,
                     content |-> draft[d].content]]

PlacedOrders ==
  {[key |-> k, draft |-> order[k].draft, content |-> order[k].content] :
     k \in {o \in Keys : order[o] # NoOrder}}

Contract == INSTANCE OrderContract WITH
  Contents <- Versions, Nothing <- 0, draft <- DraftView, placed <- PlacedOrders

\* What turns, commands left behind, clerks and members do to drafts and orders
\* together is what OrderContract allows: no message is ordered for twice, and a
\* call that comes late is refused or is one step of the contract.
ImplementsOrderContract == Contract!Spec

\* What the customer was told was so: a draft said to be cancelled never becomes
\* an order, an order said to be confirmed exists with the content it was said to
\* have, and a draft shown for approval lacks nothing until it is edited again.
RepliesAreTrue ==
  \A m \in Messages :
    /\ said[m].kind = "summary" =>
         /\ said[m].content <= draft[said[m].draft].content
         /\ said[m].content = draft[said[m].draft].content => draft[said[m].draft].complete
    /\ said[m].kind = "cancelled" => draft[said[m].draft].status = "cancelled"
    /\ said[m].kind = "ordered" =>
         \E k \in Keys : /\ order[k].draft = said[m].draft
                         /\ order[k].content = said[m].content

\* docs/AI_AGENT.md:101 and docs/CONVERSATION_ORDER_FLOW.md:14: the agent shows the
\* order's summary and asks for explicit approval before it confirms, so what it
\* confirms is what the customer was last shown.
ConfirmedAsShown ==
  [][\A m \in Messages :
       order[m] = NoOrder /\ order'[m] # NoOrder =>
         order'[m].content = summary.content]_vars
============================================================================
