-------------------------- MODULE InboundMessages --------------------------
(***************************************************************************)
(* Instagram messages on their way in: accept of                           *)
(* apps/api/src/integrations/instagram-webhook.service.ts, normalizeInbound*)
(* of packages/integrations/src/instagram-adapter.ts, and the customers    *)
(* and conversations the messages end up with, for one tenant.             *)
(*                                                                         *)
(* A delivery is a request of Meta with some items, handled in order, each *)
(* message in a transaction of its own.  Meta repeats a delivery that is   *)
(* not answered with success, and may run several at a time.  The          *)
(* transaction takes two advisory locks, of the message and of the         *)
(* sender's contact; a member's own transactions do not take them, and     *)
(* meet a webhook only in the unique indexes of contacts and threads.      *)
(***************************************************************************)
EXTENDS Integers, Sequences

CONSTANTS
  Inbound,     \* messages of customers, by their external id
  Senders,     \* Instagram-scoped ids of customers
  People,      \* customer ids
  Deliveries,  \* webhook requests
  Contents,    \* what a message says: the values of its fingerprint
  MaxItems,    \* bound on the items of a delivery
  NoOne,       \* no customer
  Unusable     \* an entry normalizeInbound rejects

ASSUME InboundAssumption ==
  /\ MaxItems \in Nat
  /\ NoOne \notin People
  /\ Unusable \notin Inbound

Item ==
  [message : Inbound, content : Contents] \cup [message : {Unusable}, content : {Unusable}]

Answers == {"none", "ok", "conflict", "bad", "failed"}

VARIABLES
  from,       \* the sender of each message
  contact,    \* customer_contacts: whose the contact igsid:<sender> is
  thread,     \* conversations: the customer of the sender's thread
  people,     \* customers that exist
  stored,     \* messages: the content each was stored with, or {}
  jobs,       \* message_processing_jobs by message
  delivery,   \* the requests
  touched     \* senders whose contact or thread a member has changed

inboundVars ==
  <<from, contact, thread, people, stored, jobs, delivery, touched>>

\* customer, sees: the contact's owner and the thread's customer as the transaction
\* found them; skipped: an item met no account.
NoDelivery ==
  [step |-> "idle", items |-> << >>, at |-> 1, customer |-> NoOne, sees |-> NoOne,
   skipped |-> FALSE, answer |-> "none"]

InboundInit ==
  /\ from \in [Inbound -> Senders]
  /\ contact = [s \in Senders |-> NoOne]
  /\ thread = [s \in Senders |-> NoOne]
  /\ people = {}
  /\ stored = [m \in Inbound |-> {}]
  /\ jobs = [m \in Inbound |-> 0]
  /\ delivery = [d \in Deliveries |-> NoDelivery]
  /\ touched = {}

Holding == {"locked", "owned", "placed"}

Handling(d) == delivery[d].items[delivery[d].at]
Sender(d) == from[Handling(d).message]

HoldsMessage(d, m) == delivery[d].step \in Holding /\ Handling(d).message = m
HoldsContact(d, s) == delivery[d].step \in {"owned", "placed"} /\ Sender(d) = s

StepTo(d, r) == delivery' = [delivery EXCEPT ![d] = r]

database == <<from, contact, thread, people, stored, jobs, touched>>

\* A first delivery or a repetition: the payload is what Meta sends.
Deliver(d, items) ==
  /\ delivery[d].step = "idle"
  /\ StepTo(d, [NoDelivery EXCEPT !.step = "next", !.items = items])
  /\ UNCHANGED database

Ends(d, answer) ==
  /\ StepTo(d, [delivery[d] EXCEPT !.step = "done", !.answer = answer, !.at = 1,
                                   !.customer = NoOne, !.sees = NoOne])
  /\ UNCHANGED database

AnswerOk(d) ==
  /\ delivery[d].step = "next"
  /\ delivery[d].at > Len(delivery[d].items)
  /\ Ends(d, "ok")

HasNext(d) == delivery[d].step = "next" /\ delivery[d].at <= Len(delivery[d].items)

\* InstagramPayloadError ends the request; the items after it are not handled.
RejectEntry(d) ==
  /\ HasNext(d)
  /\ Handling(d).message = Unusable
  /\ Ends(d, "bad")

Passes(d, skipped) ==
  /\ StepTo(d, [delivery[d] EXCEPT !.step = "next", !.at = @ + 1, !.customer = NoOne,
                                   !.skipped = @ \/ skipped])
  /\ UNCHANGED database

\* No tenant has the account just now (a member connects and disconnects it at any
\* time: InstagramConnections): the entry is ignored and the answer stays 200.
SkipEntry(d) ==
  /\ HasNext(d)
  /\ Passes(d, TRUE)

\* The message's lock is taken, and the message looked for.
LockMessage(d) ==
  LET item == Handling(d)
  IN /\ HasNext(d)
     /\ item.message # Unusable
     /\ \A e \in Deliveries : ~HoldsMessage(e, item.message)
     /\ IF stored[item.message] = {}
        THEN /\ StepTo(d, [delivery[d] EXCEPT !.step = "locked"])
             /\ UNCHANGED database
        ELSE IF stored[item.message] = {item.content}
        THEN Passes(d, FALSE)
        ELSE Ends(d, "conflict")

\* The contact's lock is taken, and its owner looked for.
FindCustomer_Unlocked(d) ==
  /\ delivery[d].step = "locked"
  /\ StepTo(d, [delivery[d] EXCEPT !.step = "owned", !.customer = contact[Sender(d)]])
  /\ UNCHANGED database

FindCustomer(d) ==
  /\ delivery[d].step = "locked"
  /\ \A e \in Deliveries : ~HoldsContact(e, Sender(d))
  /\ StepTo(d, [delivery[d] EXCEPT !.step = "owned", !.customer = contact[Sender(d)]])
  /\ UNCHANGED database

\* The thread's lock is taken, and the thread looked for.
FindThread(d) ==
  /\ delivery[d].step = "owned"
  /\ StepTo(d, [delivery[d] EXCEPT !.step = "placed", !.sees = thread[Sender(d)]])
  /\ UNCHANGED database

\* The inserts: the customer and the contact when there is none, the thread when
\* there is none, the message and its job.  A contact or a thread that has come
\* into being since is a unique violation, which accept answers with 409.
StoreMessage(d, c) ==
  LET m == Handling(d).message
      s == Sender(d)
      known == delivery[d].customer
      taken == \/ known = NoOne /\ contact[s] # NoOne
               \/ delivery[d].sees = NoOne /\ thread[s] # NoOne
  IN /\ delivery[d].step = "placed"
     /\ IF known = NoOne THEN c \in People \ people ELSE c = known
     /\ IF taken THEN Ends(d, "conflict")
        ELSE /\ people' = people \cup {c}
             /\ contact' = IF known = NoOne THEN [contact EXCEPT ![s] = c] ELSE contact
             /\ thread' = IF thread[s] = NoOne THEN [thread EXCEPT ![s] = c] ELSE thread
             /\ stored' = [stored EXCEPT ![m] = {Handling(d).content}]
             /\ jobs' = [jobs EXCEPT ![m] = @ + 1]
             /\ StepTo(d, [delivery[d] EXCEPT !.step = "next", !.at = @ + 1,
                                              !.customer = NoOne, !.sees = NoOne])
             /\ UNCHANGED <<from, touched>>

\* The process dies or the database refuses: the open transaction is undone.
Fails(d) ==
  /\ delivery[d].step \in {"next"} \cup Holding
  /\ Ends(d, "failed")

members == <<from, stored, jobs, delivery>>

\* CustomerService.create: contacts a member can write never equal igsid:<sender>.
CreateCustomer(c) ==
  /\ c \in People \ people
  /\ people' = people \cup {c}
  /\ UNCHANGED <<contact, thread, touched, members>>

\* CustomerService.update with contacts replaces them all, igsid:<sender> with them.
ReplaceContacts(c) ==
  /\ c \in people
  /\ contact' = [s \in Senders |-> IF contact[s] = c THEN NoOne ELSE contact[s]]
  /\ touched' = touched \cup {s \in Senders : contact[s] = c}
  /\ UNCHANGED <<thread, people, members>>

\* ConversationService.create with the external thread of a sender.
OpenThread(c, s) ==
  /\ c \in people
  /\ thread[s] = NoOne
  /\ thread' = [thread EXCEPT ![s] = c]
  /\ touched' = touched \cup {s}
  /\ UNCHANGED <<contact, people, members>>

ItemLists == UNION {[1..n -> Item] : n \in 0..MaxItems}

InboundNext ==
  \/ \E d \in Deliveries :
       \/ \E items \in ItemLists : Deliver(d, items)
       \/ AnswerOk(d) \/ RejectEntry(d) \/ SkipEntry(d) \/ LockMessage(d)
       \/ FindCustomer(d) \/ FindThread(d) \/ Fails(d)
       \/ \E c \in People : StoreMessage(d, c)
  \/ \E c \in People :
       CreateCustomer(c) \/ ReplaceContacts(c) \/ \E s \in Senders : OpenThread(c, s)

InboundSpec == InboundInit /\ [][InboundNext]_inboundVars

-----------------------------------------------------------------------------

InboundTypeOK ==
  /\ from \in [Inbound -> Senders]
  /\ contact \in [Senders -> People \cup {NoOne}]
  /\ thread \in [Senders -> People \cup {NoOne}]
  /\ people \subseteq People
  /\ stored \in [Inbound -> SUBSET Contents]
  /\ jobs \in [Inbound -> {0, 1}]
  /\ delivery \in [Deliveries ->
       [step : {"idle", "next", "done"} \cup Holding, items : Seq(Item), at : Nat,
        customer : People \cup {NoOne}, sees : People \cup {NoOne}, skipped : BOOLEAN,
        answer : Answers]]
  /\ touched \subseteq Senders

ItemsOf(d) == {delivery[d].items[i] : i \in 1..Len(delivery[d].items)}

\* A delivery answered with 200 has all its messages stored as it has them, each
\* with one job for the agent, unless the account was gone; one answered with 409
\* really reuses the id of a message for another content, unless a member has
\* changed the sender's contact or thread; and until a member does, the sender's
\* contact and thread belong to one customer.
DeliveriesAreKept ==
  /\ \A d \in Deliveries :
       delivery[d].answer = "ok" /\ ~delivery[d].skipped =>
         \A item \in ItemsOf(d) :
           stored[item.message] = {item.content} /\ jobs[item.message] = 1
  /\ \A d \in Deliveries :
       delivery[d].answer = "conflict" =>
         \E item \in ItemsOf(d) :
           /\ item.message # Unusable
           /\ \/ stored[item.message] # {item.content} /\ stored[item.message] # {}
              \/ from[item.message] \in touched
  /\ \A s \in Senders \ touched : contact[s] = thread[s]
=============================================================================
