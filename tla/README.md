# Verification of the AI business platform

The platform sells through chat: customers write on Instagram, an AI agent
answers from the catalog, drafts orders and confirms them against stock, and
members of the shop take conversations over when the agent hands them off. This
directory holds TLA+ models of it, the TLC configurations that check them on
small instances, and TLAPS proofs of the properties that matter most.

Paths below are relative to the repository (`src/` here). The modules are
translated from the code; documents are quoted only where a property states
what a document promises.

1. [The system](#1-the-system)
2. [Modules](#2-modules)
3. [Runs](#3-runs)
4. [Fairness](#4-fairness)
5. [Proofs](#5-proofs)
6. [Where the code and its documents disagree](#6-where-the-code-and-its-documents-disagree)
7. [What is not modelled](#7-what-is-not-modelled)
8. [Plan](#8-plan)

## 1. The system

A NestJS API (`apps/api`), a worker process (`apps/worker`), a Next.js front end
(`apps/web`) and packages (`packages/*`) around one PostgreSQL database. All
lasting state is in the database, the object store and at Meta. Every request of
the API runs in transactions of `withTenantTransaction`
(`packages/db/src/client.ts`) at READ COMMITTED; row locks (`for update`),
transaction-level advisory locks on idempotency keys, `version` columns and
unique indexes do the rest.

| Component | State | Operations | Works with | What is hard | What makes it correct |
|---|---|---|---|---|---|
| Inventory | `inventory_balances`, `stock_reservations`, `inventory_movements` | receive, return, sell, adjust, reserve, release, commit | orders call reserve, release and commit in their own transactions | absolute values written back after a read; retries under one key; reservations settled twice | `0 <= reserved <= on_hand`; the ledger explains the balance; a key acts once; a reservation is settled once |
| Draft orders and orders | `draft_orders`, `orders`, `order_commands` | create, edit, submit, cancel, show, confirm a draft; advance, ship, cancel an order | inventory; product prices and pricing rules; the agent and the members as clients | the approval refers to something shown earlier; confirm fails half-way through its items; retries | what is ordered is what was approved; one order per draft; stock follows the order's status |
| Tenant transactions | locks, uncommitted writes | begin, statements, commit, roll back | under every command | interleaved statements, deadlocks, lost connections, concurrent retries | commands are atomic, applied once, none lost; every request ends |
| Conversations and handoff | `conversations`, `handoffs`, outbound `messages` | load, claim, release, transition, link, send; answer and hand off by the agent | orders link drafts; the agent answers; members work the queue | a check on an unlocked read; two runs on one message; locks taken in opposite order | status, owner and handoff agree; the customer is told exactly of handoffs that exist, once |
| Customer-agent jobs | `message_processing_jobs` | enqueue, claim, reply, complete, fail | ingestion fills it, the processor calls the agent | a client that gives up while the processor works on; a crash between reply and completion | a completed job has its reply; every job ends |
| Agent turns | the links of a conversation, drafts, the order, what was said | receive, load, save, submit, confirm, cancel, reply | order service behind each tool; clerks; members | turns that overlap and are retried; tool calls that time out and commit later | one order per approval and draft; no draft lost from sight; no untrue reply |
| AI gateway | the runs, the circuit breaker (in memory) | route, attempt, call, tools, hand off | agent runtime, providers | a retry after a command may have run; the budget | commands run once; bounded calls and cost |
| Instagram delivery outbox | `instagram_delivery_jobs` | enqueue, claim, call, complete, fail | a trigger on `messages` fills it; the provider sends | a call that timed out may have worked; leases that run out; crashes | a message is sent again only when nothing tells it arrived; outcomes are true; every job ends |
| Products and product types | products, revisions, type versions and definitions | create, update, publish, archive, restore; change and archive a type | draft orders quote them | a command reads with four statements and then writes | revisions explain the product; an active product was valid |
| Product media | `product_media`, objects | upload, ticket, put, complete | object store | two systems that fail separately | a ready image exists |
| Rules, knowledge, settings | versioned rows, screens | create, save a draft, publish, decide | pricing of drafts, agent context | decisions from stale screens | one version governs; nothing is replaced unseen |
| Price policy | list price, rule versions, decisions, the item quoted and confirmed | publish, evaluate, quote, check, write, commit | rules, products, orders | decided, quoted and ordered in different transactions; catalog and rules read without locks, before the confirm command waits for stock; rounding, downwards too | what is ordered was written at its list price or within the policy in force then, at a list price that there was while the command ran |
| Inbound messages and customers | `messages`, jobs, contacts, threads | deliver, store, skip, reject; create customers, replace contacts | Meta, members | repeated and concurrent deliveries | stored once, one job, truthful answers |
| Instagram connections | `instagram_accounts`, what Meta holds | connect, disconnect, revoke | Meta | two calls and a transaction that overlap and are cut short | a connection is confirmed, subscribed, and of one tenant |
| The rest | see section 7 | | | | |

How they meet: an inbound message is stored with an agent job; the worker has the
API claim the job and let the agent answer; the agent reads the catalog, quotes
and drafts orders, confirms them, and either answers or requests a handoff; its
outbound message puts a delivery job into the outbox; the worker hands the
message to the provider. Members work on the same conversations, orders and
stock through the API, concurrently with all of this.

## 2. Modules

```
StockCommands ── StockContract          (what stock commands promise)
      └───────── StockTransactions      (how PostgreSQL runs them; implements StockContract)
Inventory                               (stock commands, ledger, reservations: one step each)
Orders ── OrdersDesk                    (drafts, orders, their stock; with the inventory desk)
Conversations ── AgentJobs              (ownership, handoffs, runs of the agent; the job queue above them)
AgentTurns                              (the agent's order turns against clerks and members, call by call)
OrderContract                           (what the order service promises; Orders and AgentTurns implement it)
DeliveryOutbox                          (jobs, leases, workers, provider: step by step)
AiGateway  Catalog  ProductMedia  Configuration  Pricing  InboundMessages
InstagramConnections ── BackOffice      (all seven, one of them in each behaviour)
```

`MC*` modules instantiate these for TLC; `*Proofs` modules hold the theorems.
`Inventory` and `Orders` take a whole command as one step; `StockTransactions`
is what justifies that: it runs the same commands one statement at a time and
implements a contract in which each takes effect at once.

Operators named `Action_Something` beside an action are deliberate mistakes
(a dropped guard, a stale value, a missing reset). Nothing uses them: they
document, and are used to test, that each property notices the mistake it is
meant for.

### Inventory

`packages/db/src/inventory-commands.ts`, `packages/db/src/schema.ts`.

| Model | Code |
|---|---|
| `balance` | `inventory_balances.on_hand`, `.reserved` by (location, variant) |
| `reservation` | `stock_reservations`, named by the idempotency key of the reserve command |
| `movements` | `inventory_movements`, per target, in order |
| `KeyUsed` | `replayIfPresent`: a used key is answered or refused, nothing is written |
| `PostMovement` | `lockBalance`, `updateBalance`, `insertMovement`; active location and variant; the range of the integer column |
| `ApplySimpleMovement` | receive, return, sell, adjust: `on_hand` never below `reserved` |
| `ReserveInventory`, `TransitionReservation` | reserve; release and commit, refused unless the reservation is active |

Abstracted: reasons and references of movements, timestamps, expiry dates of
reservations (no code reads them), fingerprints (a used key is refused either
way). `NoReservation` is null.

### Orders, OrdersDesk, OrderContract

`apps/api/src/orders/order.service.ts`, `packages/db/src/order-commands.ts`,
`packages/domain/src/orders/order-lifecycle.ts`.

| Model | Code |
|---|---|
| `draft`, `order`, `command` | `draft_orders` with items, `orders` with items, `order_commands` |
| `shown` | the draft as the client that asks for approval last read it: `confirmDraft` takes the version from that client |
| `onHand`, `reserved`, `reservation` | the inventory tables, reduced to what orders see |
| `CreateDraft`, `UpdateDraft`, `SubmitDraft`, `CancelDraft`, `ShowDraft` | the draft operations; an edit takes a submission back |
| `ConfirmDraft` | `confirmDraftOrder`: version, completeness, and a reservation for every item or nothing; that its items pass the check of catalog and rules is left open |
| `TransitionOrder` | `transitionOrder`: shipping commits, cancelling releases every reservation, or nothing |
| `MoveStock` | stock changing around the orders |
| `SettleByHand` | `InventoryService.release` and `.commit` on a reservation of an order |

`Spec` has `SettleByHand`; `OrderSpec` is the same system when reservations of
orders are left to the order commands. `OrdersDesk` has it too and remembers the
orders the desk has touched (`byHand`), so that the others can be held to
`OrdersKeepTheirStock`. Everything that decides a command here is read under a
lock that is held to the end, which is why a command may be one step. The catalog
and the rules are not: `confirmDraftOrder` reads them once, unlocked, and then
waits for balances. So there are no prices here. A quote is what an item was
written at, `ConfirmDraft` may find any quote good or not, and `Pricing` takes
the confirm command apart.

`OrderContract` is the abstract specification of the order service as clerks and
the agent may rely on it: the next version of an open draft, or an order made of
the version that was submitted, once per draft and per key, after which neither
changes what it is for. `Orders` (which sees the stock) and `AgentTurns` (which
sees the conversation) describe the same service at two grains; each implements
it under a mapping (`DraftView`, `PlacedOrders`) that forgets what the other does
not see, so that the two cannot drift apart on what a draft may become.

### StockCommands, StockContract, StockTransactions

`StockCommands` says what a command asks for, line by line; `StockContract` is
the abstract specification: a command takes effect at one instant, on all of its
lines or on none, once per key, within bounds. `StockTransactions` is the
detailed one: handlers (database connections) begin a transaction, take the
advisory lock of the key, look for an earlier commit, lock the draft or order
row, then for each item the reservation and the balance row, and commit. `owner`
is the lock table; `handler[h].buffer` holds uncommitted absolute values. Any
handler may crash, be chosen as deadlock victim, and any key may be sent again,
concurrently too. `ImplementsContract` is the refinement, with `balance`,
`hold`, `phase` and `applied` the committed rows in both.

### Conversations

`apps/api/src/conversations/conversation.service.ts`,
`apps/api/src/customer-agent/customer-agent.service.ts`,
`packages/domain/src/conversations/conversation-lifecycle.ts`.

| Model | Code |
|---|---|
| `status`, `assignee`, `version` | the `conversations` row |
| `handoff` | `handoffs`, by the message they are requested for (`agent-handoff:<message>`) |
| `reply` | the bot's message under `agent-reply:<message>`: an answer or the notice of a handoff |
| `received`, `latest` | inbound messages; only the latest unanswered one is processed |
| `seen` | what each member has on screen, `expectedVersion` included |
| `run` | one attempt of the agent: `Start` (`reply` up to the model), `Decide`, then `CheckAnswer`/`SendAnswer` (`appendMessage`) or `TakeHandoffKey`/`InsertHandoff`/`CommitHandoff` (`requestHandoff`) |
| `sending` | members between `assertMessageWriteAllowed` and the insert |
| `messageLock`, `handoffLock`, `rowLock` | two advisory locks and `for update` of the row |
| `Claim`, `Release`, `Transition`, `UpdateLinks`, `LinkDraft`, `LinkOrder` | one step each, possible while nobody holds the row |

Inserting a message waits for the row, because its foreign key takes a key-share
lock of it; reading the conversation does not. A handoff holds the row and then
asks for the message's lock, an answer holds the message's lock and then waits
for the row: `Deadlocked`, resolved by `DeadlockVictim`.

### AgentJobs

Migration 0023, `customer-agent-job-processor.service.ts`,
`apps/worker/src/customer-agent-job-client.ts`. It extends `Conversations`: a
reply is a run of that module, named `<<message, attempt>>`, with 0 for the reply
a member asks for.

| Model | Code |
|---|---|
| `job` | `message_processing_jobs`: status, attempts, `locked_by` |
| `call` | a request `process-next` of the API: its worker and where it is; `LoseCall` ends it at any point |
| `Ingest` | a stored inbound message with its job |
| `ClaimJob` | `app_claim_message_processing_job`: due or expired, or given up at the limit |
| `BeginReply`, `Reply`, `ReplyFails`, `BreakDeadlock` | `CustomerAgentService.reply` around the run |
| `CompleteJob`, `FailJob` | the two SQL functions, which compare the worker's id only |
| `AskForReply` | `POST .../agent-reply` |
| `Others` | every other step of `Conversations` |

The client's time-out is in the module by what it causes: a worker may claim
again while an earlier call of its own still works.

### AgentTurns

`#order` of `packages/customer-agent/src/runtime.ts`,
`customer-agent-data-source.ts`, and the order service behind it, for one
conversation.

| Model | Code |
|---|---|
| `link`, `ordered` | `conversations.draft_order_id`, `.order_id` |
| `draft`, `order` | as in `Orders`, a draft's content named by the version that wrote it |
| `turn` | what a turn holds while it works: the draft it loaded, what it will say |
| `said`, `summary` | the reply to each message; the summary the customer was shown last |
| `late` | commands of tool calls that timed out and may still commit |
| `Begin` … `Answer` | the turn: load, decide by the customer's intent, then for each tool `Check` (reload and compare) and `..Act` (the service's transaction) |
| `DeskEdit` … `OrderMoves` | clerks; `TakeOver`, `Relink`: members |

Two turns of one conversation may be at work: a message that arrives while the
older one is answered, a retry, a late commit. `relinked` remembers that a member
has changed the links, after which the agent is not responsible for them.
A confirmation leaves the draft's version alone; a clerk's edit may take the
address out of a draft, the agent's (`AgentUpdates`) only adds to it.

### DeliveryOutbox

Migration 0022, `apps/worker/src/instagram-delivery-worker.ts`,
`packages/integrations/src/instagram-delivery-policy.ts`.

| Model | Code |
|---|---|
| `status`, `attempts`, `lockedBy`, `external` | `instagram_delivery_jobs` |
| `ready` | jobs whose `available_at` has come or whose five-minute lease is over: `Elapse` may happen at any moment |
| `audited` | audit events `instagram.message.delivered`, `instagram.delivery.dead_lettered` |
| `worker` | where a worker is, with its job and the number of its claim |
| `NameOf` | the id a process uses: `complete` and `fail` compare the id only |
| `open`, `copies`, `unclear` | the provider: calls it may still act on, messages it has sent, attempts that ended without an answer that tells |
| `Claim`, `Complete`, `Fail` | the three SQL functions |
| `AnswerDelivered`, `AnswerPermanent`, `AnswerTransient` | classification of the provider's answer |

Which of several due jobs is claimed is left open, so nothing depends on the
order of the queue. The provider is external: it may send a message it was asked
for at any time, or never, whatever the worker was told.

### AiGateway

`RoutedAiGateway.run` and `AiCircuitBreaker` of `packages/ai-gateway`. A run goes
through its routes and attempts; an attempt is calls of the provider, each
answered with text, an invalid answer or tools. Every early return is an action
(`SkipRoute`, `OverBudget`, `TooManyTools`, `AnswerOverBudget`, ...). `effects` are
the attempts whose command tool has done something, `hanging` those whose command
timed out and may still do it. Money is counted in calls.

### Catalog, ProductMedia, Configuration

`Catalog` runs the commands of `product.service.ts` statement by statement
(`ReadProduct`, `ReadVariants`, `ReadTypeVersion`, `ReadDefinitions`, then the
write with or without the version), against `product-type.service.ts`.
`overtaken` are products that `publish` wrote over a change it had not seen.

`ProductMedia` has the row and the object, and requests that put, look up and
mark, each of which may fail or be cut short.

`Configuration` has one pattern for rule sets and knowledge entries (a counter
the screen reads before the versions, compared under the row's lock) and one for
agent settings (the number of the latest version, compared under an advisory
lock), and the screens that managers act from, which read version lists in
statements of their own and show the newest `HistoryLimit` versions. A decision
is stored only if its version is still published (the trigger of migration 0014).

### Pricing

`packages/domain/src/rules/pricing-policy.ts` to the minor unit, the decisions
`business-rule.service.ts` stores, the checks when an item is quoted, and the
confirm command by the statements that matter to a price.

| Model | Code |
|---|---|
| `BasisPoints`, `PercentageFloor` | `percentageFloor`: the percentage to the nearest hundredth of a percent, then up to the minor unit. A minimum is stored as it is sent, so the first rounding goes down as well; `Precision` is in how many parts of a hundredth minimums are given |
| `MinimumPrices`, `LowestAllowed`, `PriceDecision` | `evaluatePriceDecision`; a set of minimums, because a percentage half way between two hundredths is a floating-point product before it is rounded |
| `listPrice` | `price_override` or `base_price`, null while the product is not on sale |
| `ReadListPrice`, `EvaluateOffer` | the agent's tool reads the product in one transaction and stores the decision in another |
| `StartQuote`, `QuoteItem` | the two selects of `quoteItems` |
| `BeginConfirm`, `CheckItem`, `WriteItem`, `CommitConfirm`, `RollBackConfirm` | `confirmDraftOrder`: locks; the one select of items, catalog, decisions and rules; the insert into `order_items` with its trigger (migration 0017), after the wait for the balance; the end |
| `onOffer` | the list prices there were since the confirmation began |

The catalog and the rules change between any two of these steps. What the code
does not catch, and `OrderedWithinPolicy` therefore does not say: a list price
that changes, or a product that is archived, between `CheckItem` and the commit
is not noticed (the trigger looks at the decision and the rule, not at the
catalog); a rule that is superseded after `WriteItem` is not noticed; and a price
may be below a minimum percentage by up to half a hundredth of a percent of the
list price.

### InboundMessages, InstagramConnections

`InboundMessages` handles the items of webhook deliveries in order, each message
under its two advisory locks, beside members that create customers, replace their
contacts and open conversations; `touched` are senders whose contact or thread a
member has changed.

`InstagramConnections` has the two calls of Meta and the transaction of `connect`
as steps of their own; `accepted`, `subscribed` and `revoked` are what Meta knows.

## 3. Runs

All numbers are distinct states.

| Run | Instance | States | Shows |
|---|---|---|---|
| `inventory` | 3 targets (one with an inactive location), 5 keys, quantities 1 and 2, column maximum 3 | 67 021 | any sequence of five commands keeps the bounds, the ledger, keys applied once, reservations settled once, `reserved` the sum of active reservations |
| `orders` | 2 drafts, 3 keys, 2 targets, 1 quote, at most one unit on each shelf, versions to 4, the inventory desk included | 604 905 | drafts become at most one order, what is ordered is what was shown, the stock of each order the desk leaves alone follows its status, item by item, and the whole implements `OrderContract` |
| `orders_cancel` | 1 draft, 3 keys, 1 target | violated | section 6 |
| `stock_transactions` | 3 connections, 5 commands (two confirms, a cancel, a commit by hand, a receipt), 2 orders with opposite item orders, 1 and 2 units | 64 008 | whatever interleaves, fails and is retried, what is visible is what the contract allows; no update is lost; every request ends |
| `conversations` | 2 members, 2 messages, 3 runs, versions to 4, one message per member | 1 349 765 | status, owner and handoff agree; notices and handoffs agree; versions identify; the customer is told once |
| `conversations_owner` | 1 member, 1 message, 1 run | violated | section 6 |
| `agent_jobs` | 1 member, 1 message, 2 workers, 2 attempts, versions to 2 | 349 998 | a completed job has its reply; a settled job stays; every job and every run of the agent ends |
| `delivery` | 2 jobs, 2 workers with their own ids, 2 attempts | 170 698 | outcomes are true, repetition only when unclear, only the latest claim settles, every job ends |
| `delivery_audit` | 1 job, 2 workers, 2 attempts | violated | section 6 |
| `agent_turns` | 2 messages of any intent, one of them tried twice, 2 drafts, 1 clerk's key, at most 4 versions written in all (`MaxWrites`), one command left behind at a time | 4 751 838 | one order per draft and approval; no draft of the agent's out of its sight; replies are true |
| `agent_approval` | 2 messages, 1 draft, versions to 5 | violated | section 6 |
| `back_office` | gateway: 2 runs, 2 routes of 2 attempts, 2 tools; catalog: 1 product, 2 editors, 3 versions, 2 schema versions; media: 2 images, 2 callers; configuration: 2 managers, 3 versions of a rule set or of the settings of which 2 are listed; inbound: 2 messages of one sender, 2 deliveries of up to 2 items, 2 customers; connections: 2 tenants, 2 accounts, 2 requests; pricing: 3 policies, 2 list prices, 3 offers, 2 rules, 2 decisions, one minimum of 33.334 % | 2 861 675 | commands run once; revisions explain the product; what is published was valid; a ready image exists; one version governs and nothing is replaced unseen; deliveries are kept; connections are live; what is ordered was written within the policy of the moment |

Why the bounds are enough to be interesting:

- `inventory`: five commands are enough to stock a shelf, hold from it, settle
  the hold, settle it again and retry any of them; a maximum of 3 with
  quantities up to 2 makes both ends of the column reachable.
- `orders`: two drafts want the same last unit on each of two shelves; three
  keys allow a confirm, a retry with another key and a cancel or shipment, or
  two orders and a cancellation. Versions up to 4 allow a draft that was shown to
  be edited and submitted again before the approval arrives.
- `stock_transactions`: three connections are needed for a retry that runs
  beside the first attempt while another order holds the other balance;
  opposite item orders make deadlock reachable, and one unit on the first target
  makes the last item of an order fail after the first was reserved. Shipping and
  releasing by hand are not among the commands: a sixth takes TLC close to five
  minutes. They go through the steps of cancelling and committing by hand, and the
  theorems are about every set of commands.
- `conversations`: three runs make two on one message while a third works on the
  other; four versions make claim, release or return, and a second handoff
  reachable; members' changes stop at `MaxVersion`, the agent's do not.
- `agent_jobs`: two attempts have a first, an overlapping second and the limit;
  with the reply a member asks for, three runs work on the one message. Two
  messages are out of reach of a run, so that the job of an older message, which
  the code refuses for good, does not occur in it; `CompletedIsTold` and
  `SettledOnce` are proved for any number of messages.
- `agent_turns`: two messages give a purchase or an edit and its approval or
  cancellation, overlapping in any way; two drafts show a second one beside the
  first; the second try of a message meets its own late commit.
- `delivery`: two attempts have a first, a retry and the limit; two workers have
  an overtaken and an overtaking one; two jobs have a worker move on while its
  old call is still open.
- `back_office`: the components share no variable, so a behaviour picks one of
  them, and the run is the union of their state spaces. Two of everyone who acts
  is what every race there needs: an editor and the one who overtakes it, a
  manager and a stale screen, a delivery and its repetition, a member and a
  webhook, two tenants and one account. The prices include one at which the
  percentage is not whole, and the minimums one that is rounded down. The history
  lists two of three versions, so that a published version that is no longer
  listed occurs, as it does in the code after a hundred drafts.

Symmetry is used in runs that check safety only. Deadlock is checked in the run
of `StockTransactions`; the other systems may really stop, when keys, messages
or jobs are used up.

## 4. Fairness

- `StockTransactions`: strong fairness of the steps of each connection. Weak
  fairness is not enough: a lock that is released and taken again and again
  disables a waiting request in between. PostgreSQL serves the queue of a lock
  in order, so a request that waits gets it when it comes free, which is what
  strong fairness says. Weak fairness of the deadlock detector, which runs after
  `deadlock_timeout` in every waiting backend. Without it `EveryRequestEnds`
  fails: two orders with opposite item orders wait for each other.
- `AgentJobs`: weak fairness of claiming a job that is due (some worker polls in
  an endless loop), of the steps of each call, which the API runs to an end, and
  of the deadlock detector. Nothing is assumed of customers and members, and a
  call may be lost at any point: no claim need ever be settled.
- `DeliveryOutbox`: weak fairness of each worker's steps (its loop, which goes on
  after an error, and its restart by the platform) and of time passing. Crashes
  are not restricted, and nothing is assumed of the provider: it may never send.
  A call ends because the worker's own timeout ends it (`AnswerTransient`).

## 5. Proofs

Theorems hold for every value of the constants that the module's named ASSUME
allows: any number of targets, drafts, keys, connections, members, messages, jobs
and workers. The runs are what told first that a formula holds; the theorems say
that the bounds of the runs hide nothing.

**Inventory** (`InventoryProofs`). All commands post exactly one movement on one
target (lemma `StepPostsOneMovement`), so the ledger properties are argued once,
about `PostMovement`, and not seven times. `SettledOnce` is not inductive alone:
a reserve command could revive a row whose key was used; `ReservationInv` adds
`RowHasCreator` (a row's key is the key of a movement). `ReservedIsActiveSum` is
stated over units (`HeldUnits`: one element for each unit an active reservation
holds), so that its proof needs no induction over a fold: a command moves the
units of one reservation in or out, and cardinalities add up. With it
`SettlementNeverInconsistent` shows that the check for an inconsistent balance in
release and commit never fires. `TypeCorrect`, `LedgerIsAppendOnly` and
`ReservationLifecycleAlways` are proved and not run.

**Orders** (`OrdersProofs`). `TypeCorrect`, `StockBoundsInvariant`,
`OneOrderPerDraftInvariant`, `OrderedAsApprovedAlways` and
`OrdersKeepTheirStockInvariant` hold with the inventory desk (of `Spec`, and of
`DeskSpec`, whose steps are steps of `Spec`).

- `OneOrderPerDraft` needs `OrderInv`: an order's id stands for the key of the
  command that created it and that command's row stays (`OrderHasCommand`), so no
  later confirm overwrites an order.
- `OrderedAsApproved` rests on `ShownVersionFixesItems`: what a client shows is
  some past version, and the contents of a version never change. That is why
  sending the version back is enough. It says nothing of prices that change: that
  is `OrderedWithinPolicy`.
- `ReservationsFollowOrderInvariant` and `CancellationAllowedByOrders` hold of
  `OrderSpec`, without it. The second is the counterpart of the
  run `orders_cancel`, which finds the property violated in `DeskSpec`: the order
  commands alone never strand an order.
- `ReservedIsHeldInvariant`: `reserved` is what the items of orders hold, the
  inventory desk's settlements included. With `OrdersKeepTheirStock` it gives
  `PendingOrdersCanSettle`, the other counterpart of `orders_cancel`: no check
  that shipping or cancelling makes of the stock refuses an order the desk has
  left alone, whatever it did to others.
- `OrdersImplementContract` is the refinement of `OrderContract`. That a key has
  made no order when it makes one is `OrderHasCommand`.

**Stock transactions** (`StockTransactionsProofs`). `TransactionInv` says, for
every connection and its place in its command, what it may rely on: the rows it
has locked are as it read them, the target of each line it has done is buffered
with the result computed from the committed balance, the lines ahead are not
buffered yet, and what it found of its key, order and reservations is still so.
Each step of another connection is shown to leave that alone because it needs a
lock the first one holds. `NoLostUpdateInvariant` is a part of it.
`TransactionsImplementContract` is the refinement: the steps of a transaction
before its commit, and every rollback, are stutters of `StockContract`, and a
commit is one whole command of it, enabled at that moment.

**Conversations** (`ConversationsProofs`), from `Inv`:

- `Holding` says what a run may rely on while it holds its locks (its message
  unanswered, no handoff for it, the conversation still with the bot). It is what
  carries a check made in one step to the write made in a later one; where the
  code has no lock (the check before an insert) there is no conjunct, and
  `OnlyOwnerSends` is indeed violated.
- `HandoffFollowsConversation` needs `Holding` for the commit of a handoff: no
  other handoff is open, because the conversation is with the bot.
- `SeenNotAhead` (nobody has seen a version to come) makes
  `VersionIdentifiesState` inductive.

**Agent jobs** (`AgentJobsProofs`). `JobsImplementConversation`: the queue's
steps are steps of `Conversations` or leave its variables alone, so that all of
the above holds of the agent's jobs. `CompletedIsTold` is not inductive alone:
`RepliedIsTold` says that a call that has its reply stored answers a message that
was told, and `RunsAnswerTheirMessage` that the run of a call is one of its
message; what was told stays told (`ToldOnce`).

**Delivery outbox** (`DeliveryOutboxProofs`). `TypeCorrect` and
`OutcomeIsTrueInvariant` hold for all worker ids, shared ones included (`Inv`: a
worker at work has made its attempt, a worker that reports success has it).
`SentAgainOnlyIfUnclearInvariant` and `SettledByItsClaimAlways` assume
`DistinctNames`, and rest on `ClaimInv`: no two workers have one claim, the worker
named on the row has the latest, an overtaken one left its attempt unclear.

**Agent turns** (`AgentTurnsProofs`).

- `TurnsInv` says of each turn, at each of its calls, only what no clerk, member
  or other turn can take back (`Grows`: a draft stays complete until its content
  changes, a cancelled one cancelled, an order what it was). That each reply is `Truth` when
  it is composed is then enough for `RepliesAreTrue` to hold for ever. A command
  left behind by a time-out keeps the little it knows (`CommandOK`) and is checked
  again when it runs, by the versions and keys of the order service.
- `TurnsImplementOrderContract`: each change that a turn, a late commit, a clerk
  or a member makes is one step of `OrderContract`, or none. The run of
  `AgentTurns` does not check it as well: TLC would take more than twice as long.

**The components around** (`BackOfficeProofs`), each from an invariant about its
requests in flight:

- `GatewayInv` counts what a run may still spend: the calls of the routes and
  attempts behind it and the tools it has run account for its budget. For
  `CommandsRunOnce` it says that whatever a run has executed belongs to the
  attempt it is in: it goes on to another one only if nothing was executed.
- `ReadyIsStored`, `ConnectionsAreLive`: a request that is past the external call
  has that call's effect, and nothing takes the effect away.
- `RevisionsExplainProduct`, `PublishedWasValid`: `CatalogInv` says that what a
  command has read of a product is so if the product still has the version it read.
- `OneVersionGoverns`, `NothingReplacedUnseen`: `Shows` says that a screen whose
  expected number still stands shows the draft and the published version there
  are, of those that are listed. A draft always is, being the newest version; a
  published one may have dropped out of the list, and only then is it replaced
  unseen. `CounterCountsChanges`: the number a screen of rules or
  knowledge is compared by counts drafts and publications exactly, so that a
  screen it still matches has missed neither.
- `DeliveriesAreKept`: `DeliveryRequestOK` says what a delivery has found under
  its advisory locks, and that what it has passed is stored; `OneHolder` that the
  locks have one holder.
- `OrderedWithinPolicy`: `PercentageFloorIsExact` (rounding up to the minor unit
  neither admits a price below so many hundredths of a percent nor refuses one at
  it) and `RoundedPercentage` (rounding to hundredths loses half of one at most)
  make each stored decision sound for the policy version it names, a theorem of
  its own (`DecisionsAreSoundInvariant`); the trigger admits only decisions of the
  version in force. `ListPriceIsFollowed` carries the list price of the check to
  the commit.

- `BackOfficeTypeCorrect` puts the components' type invariants together: a step of
  `BackOffice` is a step of one component and a stutter of the others
  (`OneComponentSteps`), so each invariant is carried by its own component alone.

**Model-checked only.** Every invariant and action property of the passing runs has
its theorem. What is left to TLC is liveness (`EveryRequestEnds`, `EveryRunEnds`,
both `EveryJobEnds`), which is out of this prover's reach, and the four properties
that do not hold (section 6).

## 6. Where the code and its documents disagree

Each is the subject of one run that finds the property violated.

1. `orders_cancel`, `CancellationAllowed`. `docs/ORDERS_API.md:94`: cancellation is
   allowed from `new`, `confirmed` or `preparing`. The inventory desk may release
   or commit any active reservation by id, one that an order item stands on
   included (`inventory.service.ts:543`); the order's own release or commit is then
   refused, so the order can be neither cancelled nor shipped, and no operation
   leads out.
2. `conversations_owner`, `OnlyOwnerSends`. `docs/HUMAN_HANDOFF.md:54-55`: the bot
   does not send while the conversation is `needs_human` or `human`, nor a member
   who does not own it. The right to write is checked on an unlocked read, and the
   message inserted later (`conversation.service.ts:290`): a claim or a release in
   between does not stop it.
3. `delivery_audit`, `DeadLettersAudited`. `docs/INSTAGRAM_INTEGRATION.md:134`:
   dead-letter audit events are written. A job given up by the claim itself
   (`attempts_exhausted`) has none.
4. `agent_approval`, `ConfirmedAsShown`. `docs/AI_AGENT.md:101` and
   `docs/CONVERSATION_ORDER_FLOW.md:14`: the agent shows the order's summary and
   asks for explicit approval before it confirms. A confirmation is applied to the
   linked draft as the turn finds it; nothing records what was shown. With a draft
   that a clerk submitted while the agent's first reply was still to come, the next
   message confirms what was never shown.

Met while modelling, without a run of their own because the properties state what
does hold:

- Leases of the outbox and of the agent jobs are recognised by the worker id alone.
  `SettledByItsClaim` needs distinct ids, which `docs/DEPLOYMENT.md:58` (one
  `WORKER_ID` for the service) does not give when the service is scaled (line 63).
- An agent job whose reply was stored but whose completion was lost at the last
  attempt ends `dead`, though its message is answered.
- `publish` checks a product without a lock and writes without the version, and
  so may undo an archive that commits in between (`product.service.ts:517`); `update`
  with `publish: true` makes an archived product active (`:440`).
- The webhook answers every unique violation as the reuse of a message id
  (`instagram-webhook.service.ts:226`), a contact that a member entered meanwhile
  included; messages for an account that was disconnected are skipped with success.
- Disconnecting leaves the account subscribed at Meta; two overlapping `connect`
  requests leave the older token if it is stored last.
- `maxCounterOffers` is stored and counted nowhere.
- `confirmDraftOrder` reads list price, product and rule without a lock and commits
  after it has waited for stock: a price or an archive that commits in between is
  not noticed (`order-commands.ts:303`, `:424`).
- `percentageFloor` rounds a minimum percentage to hundredths, downwards too, though
  it is stored with all its digits (`pricing-policy.ts:66`, `:107`): with a minimum
  of 33.334 % of 10 000.00 the lowest price is 3333.00, not 3333.40.
- Publishing the agent settings from a screen whose history no longer lists the
  published version replaces that version unseen (`agent-settings.service.ts:84`).

## 7. What is not modelled

- *Agent texts* (prompts, grounding, memory, safety, the keywords of intents): the
  turns take the intent as given.
- *Content links*: single-row inserts and reads.
- *Credential vault*: cryptography.
- *Tenancy, roles, authentication*: table lookups, row-level security and a token
  library; no protocol of several steps.
- *Rate limiting, logging, health, operations console, pilot seed, web front end*:
  counters in one process, wiring, read models, a one-off script, a user interface.

Within the modelled components: totals of orders, message texts, list order and
metrics, reorder points, creating locations, product codes and variant axes,
archiving of rules and knowledge, merging and archiving of customer profiles, the
size of the connection pool, and tenants where one stands for all (every statement
is scoped to one). Which targets are active is a constant of `Inventory`: no
operation archives a location, and `ProductService` changes variants only by
replacing the rows, which the foreign key of `inventory_balances` refuses once a
variant has a balance. Reservations take an expiry date that nothing reads.

## 8. Plan

What would add most next:

1. Conversations into `DeliveryOutbox`: a message the bot or a member sends is
   enqueued with it, so that what the customer gets is what was sent.
2. Merging and archiving of customers beside inbound messages; archiving of rules
   and knowledge.
