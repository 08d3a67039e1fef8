---------------------------- MODULE Conversations ----------------------------
(***************************************************************************)
(* One conversation with a customer: who may answer, the bot or a member   *)
(* of the shop, and the handoffs between them.                             *)
(* apps/api/src/conversations/conversation.service.ts and, for the runs of *)
(* the customer agent, apps/api/src/customer-agent/customer-agent.service.ts. *)
(* Conversations share no state the properties speak of, so one is enough. *)
(*                                                                         *)
(* Claim, release, transition and the link updates lock the conversation   *)
(* row before they read it and change nothing else anyone waits for: each  *)
(* is one step, which is possible while no other transaction holds the     *)
(* row.  Sending a message reads the conversation WITHOUT a lock and       *)
(* inserts later, and the insert waits for the row (its foreign key takes  *)
(* a key share of it), so sending takes several steps.  So does requesting *)
(* a handoff: it holds the row when it asks for the lock of the message    *)
(* it sends.                                                               *)
(*                                                                         *)
(* A run is one attempt of the customer agent to answer one message.  The  *)
(* agent's answer and its handoff notice carry the same external id,       *)
(* agent-reply:<message>, and the handoff the key agent-handoff:<message>: *)
(* both are modelled as functions of the message.                          *)
(***************************************************************************)
EXTENDS Naturals

CONSTANTS
  Members,      \* members of the shop who may manage conversations
  Messages,     \* messages of the customer
  Runs,         \* attempts of the customer agent
  MaxVersion,   \* bound on the version up to which members change it
  MaxSent,      \* bound on the messages a member sends
  Nobody,       \* no member, no run
  NoMessage     \* no message

ConversationStatus == {"bot", "needs_human", "human", "closed"}

\* "none" is a row that does not exist.
HandoffStatus == {"none", "pending", "active", "resolved"}

\* Where a run is: "thinking" with the conversation it loaded, "answering" and
\* "escalating" before and "keyed" after it got its advisory lock, "checked"
\* when it may send, "inserted" with the row locked and the handoff inserted.
RunStep == {"idle", "thinking", "answering", "checked", "escalating", "keyed",
            "inserted", "ended"}

ASSUME ConversationsAssumption ==
  /\ MaxVersion \in Nat \ {0}
  /\ MaxSent \in Nat
  /\ Nobody \notin Members \cup Runs
  /\ NoMessage \notin Messages

VARIABLES
  status,       \* conversations.status
  assignee,     \* conversations.assigned_to_user_id
  version,      \* conversations.version
  handoff,      \* handoffs, by the message they were requested for
  received,     \* the customer's messages that are stored
  latest,       \* the one with the latest time
  reply,        \* the bot's message under agent-reply:<message>
  sent,         \* how many messages each member has sent to the customer
  seen,         \* the conversation as each member last loaded it
  run,          \* where each run is, and the message it answers
  sending,      \* the members whose message has passed the check
  messageLock,  \* advisory lock of agent-reply:<message>
  handoffLock,  \* advisory lock of agent-handoff:<message>
  rowLock       \* the run that holds the conversation row FOR UPDATE

conversation == <<status, assignee, version>>
locks == <<messageLock, handoffLock, rowLock>>
vars == <<conversation, handoff, received, latest, reply, sent, seen, run,
          sending, locks>>

NoHandoff == [status |-> "none", assignee |-> Nobody]

Open(m) == handoff[m].status \in {"pending", "active"}

transitions ==
  [bot         |-> {"needs_human", "human", "closed"},
   needs_human |-> {"bot", "human", "closed"},
   human       |-> {"bot", "needs_human", "closed"},
   closed      |-> {"bot", "needs_human"}]

At(r, step) == run[r].step = step

Go(r, step) == run' = [run EXCEPT ![r].step = step]

\* pg_advisory_lock for pg_advisory_xact_lock on the key of the handoff.
EndRun_SessionLocks(r) ==
  /\ Go(r, "ended")
  /\ messageLock' = [m \in Messages |-> IF messageLock[m] = r THEN Nobody ELSE messageLock[m]]
  /\ rowLock' = IF rowLock = r THEN Nobody ELSE rowLock
  /\ UNCHANGED handoffLock

\* The end of a run's transaction, with or without success.
EndRun(r) ==
  /\ Go(r, "ended")
  /\ messageLock' = [m \in Messages |-> IF messageLock[m] = r THEN Nobody ELSE messageLock[m]]
  /\ handoffLock' = [m \in Messages |-> IF handoffLock[m] = r THEN Nobody ELSE handoffLock[m]]
  /\ rowLock' = IF rowLock = r THEN Nobody ELSE rowLock

MoveTo_KeepsVersion(target, owner) ==
  /\ status' = target
  /\ assignee' = owner
  /\ version' = version + (IF target = status THEN 1 ELSE 0)

\* The update of a conversation row that a member or a run has locked.
MoveTo(target, owner) ==
  /\ status' = target
  /\ assignee' = owner
  /\ version' = version + 1

\* The update of the handoffs in one of the given states.
MoveHandoffs(from, to, owner) ==
  handoff' = [m \in Messages |->
    IF handoff[m].status \in from THEN [status |-> to, assignee |-> owner]
                                  ELSE handoff[m]]

-----------------------------------------------------------------------------
\* The webhook opens conversations with the bot, create with any open status.
Init ==
  /\ status \in {"bot", "needs_human", "human"}
  /\ assignee \in IF status = "human" THEN Members ELSE {Nobody}
  /\ version = 1
  /\ handoff = [m \in Messages |-> NoHandoff]
  /\ received = {}
  /\ latest = NoMessage
  /\ reply = [m \in Messages |-> "none"]
  /\ sent = [u \in Members |-> 0]
  /\ seen = [u \in Members |-> [status |-> "bot", assignee |-> Nobody, version |-> 0]]
  /\ run = [r \in Runs |-> [step |-> "idle", message |-> NoMessage]]
  /\ sending = {}
  /\ messageLock = [m \in Messages |-> Nobody]
  /\ handoffLock = [m \in Messages |-> Nobody]
  /\ rowLock = Nobody

-----------------------------------------------------------------------------
(* The customer.                                                           *)

\* Storing a message moves neither the status nor the version, and does not
\* reopen a closed conversation; its insert waits for the row.  A message that
\* arrives late keeps the time of the customer: it is not always the latest.
Receive(m) ==
  /\ m \notin received
  /\ rowLock = Nobody
  /\ received' = received \cup {m}
  /\ latest' \in {m, latest} \ {NoMessage}
  /\ UNCHANGED <<conversation, handoff, reply, sent, seen, run, sending, locks>>

-----------------------------------------------------------------------------
(* The customer agent.                                                     *)

\* CustomerAgentService.reply, up to the model: the conversation is loaded in a
\* transaction of its own, and nothing of it is locked while the model thinks.
Start(r, m) ==
  /\ At(r, "idle")
  /\ m \in received
  /\ reply[m] = "none"
  /\ latest = m
  /\ status = "bot"
  /\ run' = [run EXCEPT ![r] = [step |-> "thinking", message |-> m]]
  /\ UNCHANGED <<conversation, handoff, received, latest, reply, sent, seen,
                 sending, locks>>

Decide(r) ==
  /\ At(r, "thinking")
  /\ \E step \in {"answering", "escalating"} : Go(r, step)
  /\ UNCHANGED <<conversation, handoff, received, latest, reply, sent, seen,
                 sending, locks>>

\* appendMessageInTransaction up to assertMessageWriteAllowed.  A reply that is
\* there already has another fingerprint (it names another run): a conflict.
CheckAnswer(r) ==
  LET m == run[r].message
  IN  /\ At(r, "answering")
      /\ messageLock[m] = Nobody
      /\ IF reply[m] = "none" /\ status = "bot"
         THEN /\ messageLock' = [messageLock EXCEPT ![m] = r]
              /\ Go(r, "checked")
              /\ UNCHANGED <<handoffLock, rowLock>>
         ELSE EndRun(r)
      /\ UNCHANGED <<conversation, handoff, received, latest, reply, sent, seen,
                     sending>>

\* The rest of it: insert, last_message_at and commit.
SendAnswer(r) ==
  /\ At(r, "checked")
  /\ rowLock = Nobody
  /\ reply' = [reply EXCEPT ![run[r].message] = "answer"]
  /\ EndRun(r)
  /\ UNCHANGED <<conversation, handoff, received, latest, sent, seen, sending>>

\* requestHandoff: the lock of its key, and the replay of a stored handoff.
TakeHandoffKey(r) ==
  LET m == run[r].message
  IN  /\ At(r, "escalating")
      /\ handoffLock[m] = Nobody
      /\ IF handoff[m].status = "none"
         THEN /\ handoffLock' = [handoffLock EXCEPT ![m] = r]
              /\ Go(r, "keyed")
              /\ UNCHANGED <<messageLock, rowLock>>
         ELSE EndRun(r)
      /\ UNCHANGED <<conversation, handoff, received, latest, reply, sent, seen,
                     sending>>

\* The conversation row, locked from here to the commit, and the insert of the
\* handoff, which nobody sees before the commit.
InsertHandoff(r) ==
  /\ At(r, "keyed")
  /\ rowLock = Nobody
  /\ IF status = "bot"
     THEN /\ rowLock' = r
          /\ Go(r, "inserted")
          /\ UNCHANGED <<messageLock, handoffLock>>
     ELSE EndRun(r)
  /\ UNCHANGED <<conversation, handoff, received, latest, reply, sent, seen, sending>>

CommitHandoff_KeepsAnswer(r) ==
  LET m == run[r].message
  IN  /\ At(r, "inserted")
      /\ messageLock[m] = Nobody
      /\ reply' = [reply EXCEPT ![m] = IF @ = "none" THEN "notice" ELSE @]
      /\ handoff' = [handoff EXCEPT ![m] = [status |-> "pending", assignee |-> Nobody]]
      /\ MoveTo("needs_human", Nobody)
      /\ EndRun(r)
      /\ UNCHANGED <<received, latest, sent, seen, sending>>

\* The customer's notice, under the message lock, and all the rest: everything
\* is rolled back when the message has an answer by now.
CommitHandoff(r) ==
  LET m == run[r].message
  IN  /\ At(r, "inserted")
      /\ messageLock[m] = Nobody
      /\ IF reply[m] = "none"
         THEN /\ reply' = [reply EXCEPT ![m] = "notice"]
              /\ handoff' = [handoff EXCEPT ![m] =
                   [status |-> "pending", assignee |-> Nobody]]
              /\ MoveTo("needs_human", Nobody)
         ELSE UNCHANGED <<conversation, handoff, reply>>
      /\ EndRun(r)
      /\ UNCHANGED <<received, latest, sent, seen, sending>>

\* A process or a connection fails: the transaction it had is rolled back.  A
\* retry of the job is another run.
Crash(r) ==
  /\ run[r].step \notin {"idle", "ended"}
  /\ EndRun(r)
  /\ UNCHANGED <<conversation, handoff, received, latest, reply, sent, seen, sending>>

\* PostgreSQL rolls one of two transactions back that wait for each other: an
\* answer for the row, the handoff that holds it for the lock of that answer.
Deadlocked(r, s) ==
  /\ At(r, "checked")
  /\ At(s, "inserted")
  /\ run[r].message = run[s].message

DeadlockVictim(r) ==
  /\ \E s \in Runs : Deadlocked(r, s) \/ Deadlocked(s, r)
  /\ EndRun(r)
  /\ UNCHANGED <<conversation, handoff, received, latest, reply, sent, seen, sending>>

-----------------------------------------------------------------------------
(* The members.  expectedVersion is the version the member has on screen.  *)

Load(u) ==
  /\ seen' = [seen EXCEPT ![u] =
       [status |-> status, assignee |-> assignee, version |-> version]]
  /\ UNCHANGED <<conversation, handoff, received, latest, reply, sent, run,
                 sending, locks>>

\* for update, and the version check.
Locked(u) ==
  /\ rowLock = Nobody
  /\ version < MaxVersion
  /\ seen[u].version = version

Claim_LeavesHandoff(u) ==
  /\ Locked(u)
  /\ assignee \in {Nobody, u}
  /\ status # "human"
  /\ "human" \in transitions[status]
  /\ MoveTo("human", u)
  /\ UNCHANGED <<handoff, received, latest, reply, sent, seen, run, sending, locks>>

\* Claiming what one has already succeeds and changes nothing.
Claim(u) ==
  /\ Locked(u)
  /\ assignee \in {Nobody, u}
  /\ status # "human"
  /\ "human" \in transitions[status]
  /\ MoveTo("human", u)
  /\ MoveHandoffs({"pending"}, "active", u)
  /\ UNCHANGED <<received, latest, reply, sent, seen, run, sending, locks>>

Release_MarksReleased(u) ==
  /\ Locked(u)
  /\ status = "human"
  /\ assignee = u
  /\ MoveTo("needs_human", Nobody)
  /\ handoff' = [m \in Messages |->
       IF handoff[m] = [status |-> "active", assignee |-> u]
       THEN [status |-> "released", assignee |-> Nobody] ELSE handoff[m]]
  /\ UNCHANGED <<received, latest, reply, sent, seen, run, sending, locks>>

Release(u) ==
  /\ Locked(u)
  /\ status = "human"
  /\ assignee = u
  /\ MoveTo("needs_human", Nobody)
  /\ handoff' = [m \in Messages |->
       IF handoff[m] = [status |-> "active", assignee |-> u]
       THEN [status |-> "pending", assignee |-> Nobody] ELSE handoff[m]]
  /\ UNCHANGED <<received, latest, reply, sent, seen, run, sending, locks>>

Transition_ActivatesResolved(u, target) ==
  /\ Locked(u)
  /\ target \in transitions[status]
  /\ target = "human" => assignee \in {Nobody, u}
  /\ status = "human" => assignee \in {Nobody, u}
  /\ MoveTo(target, IF target = "human" THEN u ELSE Nobody)
  /\ CASE target = "human" -> MoveHandoffs({"pending", "resolved"}, "active", u)
       [] target = "needs_human" ->
            IF status = "human" THEN MoveHandoffs({"active"}, "pending", Nobody)
                                ELSE UNCHANGED handoff
       [] OTHER -> handoff' = [m \in Messages |->
            IF Open(m) THEN [handoff[m] EXCEPT !.status = "resolved"] ELSE handoff[m]]
  /\ UNCHANGED <<received, latest, reply, sent, seen, run, sending, locks>>

\* A resolved handoff keeps its assignee.
Transition(u, target) ==
  /\ Locked(u)
  /\ target \in transitions[status]
  /\ target = "human" => assignee \in {Nobody, u}
  /\ status = "human" => assignee \in {Nobody, u}
  /\ MoveTo(target, IF target = "human" THEN u ELSE Nobody)
  /\ CASE target = "human" -> MoveHandoffs({"pending"}, "active", u)
       [] target = "needs_human" ->
            IF status = "human" THEN MoveHandoffs({"active"}, "pending", Nobody)
                                ELSE UNCHANGED handoff
       [] OTHER -> handoff' = [m \in Messages |->
            IF Open(m) THEN [handoff[m] EXCEPT !.status = "resolved"] ELSE handoff[m]]
  /\ UNCHANGED <<received, latest, reply, sent, seen, run, sending, locks>>

UpdateLinks(u) ==
  /\ Locked(u)
  /\ MoveTo(status, assignee)
  /\ UNCHANGED <<handoff, received, latest, reply, sent, seen, run, sending, locks>>

\* OrderService.createDraft links the draft it creates for the agent, and
\* confirmDraft the order, whoever has the conversation by then.  Which draft and
\* which order are linked is left out: only the version tells.
LinkDraft ==
  /\ rowLock = Nobody
  /\ version < MaxVersion
  /\ status = "bot"
  /\ MoveTo(status, assignee)
  /\ UNCHANGED <<handoff, received, latest, reply, sent, seen, run, sending, locks>>

LinkOrder ==
  /\ rowLock = Nobody
  /\ version < MaxVersion
  /\ MoveTo(status, assignee)
  /\ UNCHANGED <<handoff, received, latest, reply, sent, seen, run, sending, locks>>

\* A member's message: assertMessageWriteAllowed, then the insert.
CheckMessage(u) ==
  /\ u \notin sending
  /\ sent[u] < MaxSent
  /\ status = "human"
  /\ assignee = u
  /\ sending' = sending \cup {u}
  /\ UNCHANGED <<conversation, handoff, received, latest, reply, sent, seen, run, locks>>

SendMessage(u) ==
  /\ u \in sending
  /\ rowLock = Nobody
  /\ sending' = sending \ {u}
  /\ sent' = [sent EXCEPT ![u] = @ + 1]
  /\ UNCHANGED <<conversation, handoff, received, latest, reply, seen, run, locks>>

AbortMessage(u) ==
  /\ u \in sending
  /\ sending' = sending \ {u}
  /\ UNCHANGED <<conversation, handoff, received, latest, reply, sent, seen, run, locks>>

-----------------------------------------------------------------------------
RunNext(r) ==
  \/ Decide(r)
  \/ CheckAnswer(r)
  \/ SendAnswer(r)
  \/ TakeHandoffKey(r)
  \/ InsertHandoff(r)
  \/ CommitHandoff(r)

MemberNext(u) ==
  \/ Load(u)
  \/ Claim(u)
  \/ Release(u)
  \/ \E target \in ConversationStatus : Transition(u, target)
  \/ UpdateLinks(u)
  \/ CheckMessage(u)
  \/ SendMessage(u)
  \/ AbortMessage(u)

Next ==
  \/ \E m \in Messages : Receive(m)
  \/ \E r \in Runs :
       \/ \E m \in Messages : Start(r, m)
       \/ RunNext(r)
       \/ Crash(r)
       \/ DeadlockVictim(r)
  \/ \E u \in Members : MemberNext(u)
  \/ LinkDraft
  \/ LinkOrder

Spec == Init /\ [][Next]_vars

\* Every statement that is not waiting for a lock is executed, and PostgreSQL
\* resolves every deadlock.  Nothing is assumed of customers and members.
FairSpec ==
  /\ Spec
  /\ \A r \in Runs : WF_vars(RunNext(r))
  /\ WF_vars(\E r \in Runs : DeadlockVictim(r))

-----------------------------------------------------------------------------
LockOwner == Runs \cup {Nobody}

TypeOK ==
  /\ status \in ConversationStatus
  /\ assignee \in Members \cup {Nobody}
  /\ version \in Nat \ {0}
  /\ handoff \in [Messages -> [status : HandoffStatus, assignee : Members \cup {Nobody}]]
  /\ received \in SUBSET Messages
  /\ latest \in Messages \cup {NoMessage}
  /\ reply \in [Messages -> {"none", "answer", "notice"}]
  /\ sent \in [Members -> Nat]
  /\ seen \in [Members -> [status : ConversationStatus,
                           assignee : Members \cup {Nobody}, version : Nat]]
  /\ run \in [Runs -> [step : RunStep, message : Messages \cup {NoMessage}]]
  /\ sending \in SUBSET Members
  /\ messageLock \in [Messages -> LockOwner]
  /\ handoffLock \in [Messages -> LockOwner]
  /\ rowLock \in LockOwner

\* HUMAN_HANDOFF.md, lifecycle and ownership: a pending handoff waits in the
\* queue with its conversation, an active one is with the member who has the
\* conversation, and at most one is open.
HandoffFollowsConversation ==
  /\ status = "human" <=> assignee # Nobody
  /\ \A m \in Messages :
       /\ handoff[m].status = "pending" => status = "needs_human"
       /\ handoff[m].status = "active" =>
            status = "human" /\ handoff[m].assignee = assignee
       /\ \A n \in Messages : Open(m) /\ Open(n) => m = n

\* HUMAN_HANDOFF.md, when handoffs happen: the customer is told of a handoff
\* exactly when there is one, also when a run fails or answers concurrently.
NoticeIffHandoff ==
  \A m \in Messages : reply[m] = "notice" <=> handoff[m].status # "none"

\* expectedVersion works: a member whose version still matches looks at the
\* conversation as it is, so a decision is never applied to another status or
\* another owner than the member saw.
VersionIdentifiesState ==
  \A u \in Members :
    seen[u].version = version => seen[u].status = status /\ seen[u].assignee = assignee

\* Retries never undo or repeat what the customer has been told: the bot's
\* message for a message of the customer is sent once, and a handoff for it
\* is requested once and stays resolved once it is.
ToldOnce ==
  [][\A m \in Messages :
       /\ reply[m] # "none" => reply'[m] = reply[m]
       /\ handoff[m].status # "none" => handoff'[m].status # "none"
       /\ handoff[m].status = "resolved" => handoff'[m] = handoff[m]]_vars

\* HUMAN_HANDOFF.md, ownership: the bot sends only while it has the conversation,
\* and a member only while the conversation is human and their own.
OnlyOwnerSends ==
  [][/\ \A m \in Messages : reply[m] = "none" /\ reply'[m] # "none" => status = "bot"
     /\ \A u \in Members : sent'[u] > sent[u] => status = "human" /\ assignee = u]_vars

\* Every run ends: no answer or handoff waits for ever for a lock, though they
\* take the row and the message in opposite orders.
EveryRunEnds == \A r \in Runs : ~At(r, "idle") ~> At(r, "ended")
=============================================================================
