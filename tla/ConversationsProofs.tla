------------------------- MODULE ConversationsProofs -------------------------
(***************************************************************************)
(* Proofs about Conversations, for every number of members, messages and   *)
(* runs.                                                                   *)
(*                                                                         *)
(* The properties of the conversation and its handoffs are inductive once  *)
(* it is known what a run may rely on while it holds its locks: module     *)
(* operator Holding.  That a version identifies the state needs that no    *)
(* member has seen a version to come.                                      *)
(***************************************************************************)
EXTENDS Conversations, TLAPS

\* What the locks of a run protect, from the moment it takes them: nobody else
\* answers its message, requests a handoff for it, or moves the conversation.
Holding ==
  \A r \in Runs :
    /\ ~At(r, "idle") => run[r].message \in Messages
    /\ At(r, "checked") =>
         /\ messageLock[run[r].message] = r
         /\ reply[run[r].message] = "none"
    /\ run[r].step \in {"keyed", "inserted"} =>
         /\ handoffLock[run[r].message] = r
         /\ handoff[run[r].message].status = "none"
    /\ At(r, "inserted") => rowLock = r /\ status = "bot"

SeenNotAhead == \A u \in Members : seen[u].version <= version

Inv ==
  /\ TypeOK
  /\ Holding
  /\ HandoffFollowsConversation
  /\ NoticeIffHandoff
  /\ SeenNotAhead
  /\ VersionIdentifiesState

-----------------------------------------------------------------------------
\* The steps of a run that end it without success: locks are let go of, and
\* nothing else changes.
GiveUp(r) ==
  /\ EndRun(r)
  /\ UNCHANGED <<conversation, handoff, received, latest, reply, sent, seen, sending>>

LEMMA InitInv == Init => Inv
<1> SUFFICES ASSUME Init PROVE Inv
  OBVIOUS
<1> USE ConversationsAssumption
<1>1. TypeOK
  BY DEF Init, TypeOK, ConversationStatus, HandoffStatus, RunStep, NoHandoff, LockOwner
<1>2. Holding
  BY DEF Init, Holding, At
<1>3. HandoffFollowsConversation
  BY DEF Init, HandoffFollowsConversation, NoHandoff, Open
<1>4. NoticeIffHandoff
  BY DEF Init, NoticeIffHandoff, NoHandoff
<1>5. SeenNotAhead /\ VersionIdentifiesState
  BY DEF Init, SeenNotAhead, VersionIdentifiesState
<1> QED
  BY <1>1, <1>2, <1>3, <1>4, <1>5 DEF Inv

-----------------------------------------------------------------------------
(* Types.                                                                  *)

LEMMA EndRunType ==
  ASSUME TypeOK, NEW r \in Runs, EndRun(r)
  PROVE  /\ run' \in [Runs -> [step : RunStep, message : Messages \cup {NoMessage}]]
         /\ messageLock' \in [Messages -> LockOwner]
         /\ handoffLock' \in [Messages -> LockOwner]
         /\ rowLock' \in LockOwner
BY DEF TypeOK, EndRun, Go, RunStep, LockOwner

LEMMA MoveHandoffsType ==
  ASSUME TypeOK, NEW from, NEW to \in HandoffStatus, NEW owner \in Members \cup {Nobody},
         MoveHandoffs(from, to, owner)
  PROVE  handoff' \in [Messages -> [status : HandoffStatus, assignee : Members \cup {Nobody}]]
BY DEF TypeOK, MoveHandoffs

LEMMA MoveToType ==
  ASSUME TypeOK, NEW target \in ConversationStatus,
         NEW owner \in Members \cup {Nobody}, MoveTo(target, owner)
  PROVE  /\ status' \in ConversationStatus
         /\ assignee' \in Members \cup {Nobody}
         /\ version' \in Nat \ {0}
BY DEF TypeOK, MoveTo

LEMMA TypeStep == TypeOK /\ [Next]_vars => TypeOK'
<1> SUFFICES ASSUME TypeOK, [Next]_vars PROVE TypeOK'
  OBVIOUS
<1> USE ConversationsAssumption
<1>1. ASSUME NEW m \in Messages, Receive(m) PROVE TypeOK'
  BY <1>1 DEF Receive, TypeOK, conversation, locks
<1>2. ASSUME NEW r \in Runs, NEW m \in Messages, Start(r, m) PROVE TypeOK'
  BY <1>2 DEF Start, TypeOK, conversation, locks, RunStep
<1>3. ASSUME NEW r \in Runs, Decide(r) PROVE TypeOK'
  BY <1>3 DEF Decide, Go, TypeOK, conversation, locks, RunStep
<1>4. ASSUME NEW r \in Runs, CheckAnswer(r) PROVE TypeOK'
  <2>1. CASE UNCHANGED <<handoffLock, rowLock>> /\ Go(r, "checked")
             /\ messageLock' = [messageLock EXCEPT ![run[r].message] = r]
    <3>1. run' \in [Runs -> [step : RunStep, message : Messages \cup {NoMessage}]]
      BY <2>1 DEF Go, TypeOK, RunStep
    <3>2. messageLock' \in [Messages -> LockOwner]
      BY <2>1 DEF TypeOK, LockOwner
    <3> QED BY <1>4, <2>1, <3>1, <3>2 DEF CheckAnswer, TypeOK, conversation
  <2>2. CASE EndRun(r)
    BY <1>4, <2>2, EndRunType DEF CheckAnswer, TypeOK, conversation
  <2> QED BY <1>4, <2>1, <2>2 DEF CheckAnswer
<1>5. ASSUME NEW r \in Runs, SendAnswer(r) PROVE TypeOK'
  <2>1. reply' \in [Messages -> {"none", "answer", "notice"}]
    BY <1>5 DEF SendAnswer, TypeOK
  <2> QED BY <1>5, <2>1, EndRunType DEF SendAnswer, TypeOK, conversation
<1>6. ASSUME NEW r \in Runs, TakeHandoffKey(r) PROVE TypeOK'
  <2>1. CASE UNCHANGED <<messageLock, rowLock>> /\ Go(r, "keyed")
             /\ handoffLock' = [handoffLock EXCEPT ![run[r].message] = r]
    <3>1. run' \in [Runs -> [step : RunStep, message : Messages \cup {NoMessage}]]
      BY <2>1 DEF Go, TypeOK, RunStep
    <3>2. handoffLock' \in [Messages -> LockOwner]
      BY <2>1 DEF TypeOK, LockOwner
    <3> QED BY <1>6, <2>1, <3>1, <3>2 DEF TakeHandoffKey, TypeOK, conversation
  <2>2. CASE EndRun(r)
    BY <1>6, <2>2, EndRunType DEF TakeHandoffKey, TypeOK, conversation
  <2> QED BY <1>6, <2>1, <2>2 DEF TakeHandoffKey
<1>7. ASSUME NEW r \in Runs, InsertHandoff(r) PROVE TypeOK'
  <2>1. CASE UNCHANGED <<messageLock, handoffLock>> /\ Go(r, "inserted") /\ rowLock' = r
    BY <1>7, <2>1 DEF InsertHandoff, Go, TypeOK, conversation, RunStep, LockOwner
  <2>2. CASE EndRun(r)
    BY <1>7, <2>2, EndRunType DEF InsertHandoff, TypeOK, conversation
  <2> QED BY <1>7, <2>1, <2>2 DEF InsertHandoff
<1>8. ASSUME NEW r \in Runs, CommitHandoff(r) PROVE TypeOK'
  <2>1. /\ status' \in ConversationStatus
        /\ assignee' \in Members \cup {Nobody}
        /\ version' \in Nat \ {0}
    BY <1>8, MoveToType DEF CommitHandoff, TypeOK, conversation, ConversationStatus
  <2>2. /\ handoff' \in [Messages -> [status : HandoffStatus, assignee : Members \cup {Nobody}]]
        /\ reply' \in [Messages -> {"none", "answer", "notice"}]
    <3>1. CASE reply[run[r].message] = "none"
      <4> DEFINE m == run[r].message
      <4>1. /\ reply' = [reply EXCEPT ![m] = "notice"]
            /\ handoff' = [handoff EXCEPT ![m] = [status |-> "pending", assignee |-> Nobody]]
        BY <1>8, <3>1 DEF CommitHandoff
      <4> QED BY <4>1 DEF TypeOK, HandoffStatus
    <3>2. CASE reply[run[r].message] # "none"
      BY <1>8, <3>2 DEF CommitHandoff, TypeOK
    <3> QED BY <3>1, <3>2
  <2>3. EndRun(r) /\ UNCHANGED <<received, latest, sent, seen, sending>>
    BY <1>8 DEF CommitHandoff
  <2> QED BY <2>1, <2>2, <2>3, EndRunType DEF TypeOK
<1>9. ASSUME NEW r \in Runs, Crash(r) \/ DeadlockVictim(r) PROVE TypeOK'
  BY <1>9, EndRunType DEF Crash, DeadlockVictim, TypeOK, conversation
<1>10. ASSUME NEW u \in Members, Load(u) PROVE TypeOK'
  BY <1>10 DEF Load, TypeOK, conversation, locks
<1>11. ASSUME NEW u \in Members, Claim(u) PROVE TypeOK'
  <2>1. MoveTo("human", u) /\ MoveHandoffs({"pending"}, "active", u)
        /\ UNCHANGED <<received, latest, reply, sent, seen, run, sending, locks>>
    BY <1>11 DEF Claim
  <2> QED
    BY <2>1, MoveToType, MoveHandoffsType DEF TypeOK, locks, ConversationStatus, HandoffStatus
<1>12. ASSUME NEW u \in Members, Release(u) PROVE TypeOK'
  <2>1. /\ MoveTo("needs_human", Nobody)
        /\ UNCHANGED <<received, latest, reply, sent, seen, run, sending, locks>>
    BY <1>12 DEF Release
  <2>2. handoff' \in [Messages -> [status : HandoffStatus, assignee : Members \cup {Nobody}]]
    BY <1>12 DEF Release, TypeOK, HandoffStatus
  <2> QED BY <2>1, <2>2, MoveToType DEF TypeOK, locks, ConversationStatus
<1>13. ASSUME NEW u \in Members, NEW target \in ConversationStatus, Transition(u, target)
       PROVE  TypeOK'
  <2>1. /\ MoveTo(target, IF target = "human" THEN u ELSE Nobody)
        /\ UNCHANGED <<received, latest, reply, sent, seen, run, sending, locks>>
    BY <1>13 DEF Transition
  <2>2. handoff' \in [Messages -> [status : HandoffStatus, assignee : Members \cup {Nobody}]]
    <3>1. CASE target = "human"
      BY <1>13, <3>1, MoveHandoffsType DEF Transition, HandoffStatus
    <3>2. CASE target = "needs_human"
      BY <1>13, <3>2, MoveHandoffsType DEF Transition, HandoffStatus, TypeOK
    <3>3. CASE target \notin {"human", "needs_human"}
      BY <1>13, <3>3 DEF Transition, HandoffStatus, TypeOK
    <3> QED BY <3>1, <3>2, <3>3
  <2> QED BY <2>1, <2>2, MoveToType DEF TypeOK, locks
<1>14. ASSUME NEW u \in Members, UpdateLinks(u) PROVE TypeOK'
  BY <1>14 DEF UpdateLinks, MoveTo, TypeOK, locks
<1>15. ASSUME NEW u \in Members, CheckMessage(u) \/ SendMessage(u) \/ AbortMessage(u)
       PROVE  TypeOK'
  BY <1>15 DEF CheckMessage, SendMessage, AbortMessage, TypeOK, conversation, locks
<1>16. ASSUME LinkDraft \/ LinkOrder PROVE TypeOK'
  BY <1>16 DEF LinkDraft, LinkOrder, MoveTo, TypeOK, locks
<1>17. CASE UNCHANGED vars
  BY <1>17 DEF vars, TypeOK, conversation, locks
<1> QED
  BY <1>1, <1>2, <1>3, <1>4, <1>5, <1>6, <1>7, <1>8, <1>9, <1>10, <1>11, <1>12,
     <1>13, <1>14, <1>15, <1>16, <1>17 DEF Next, RunNext, MemberNext

-----------------------------------------------------------------------------
(* Locks.                                                                  *)

\* The end of a run leaves the other runs, and the locks they hold, alone.
LEMMA EndRunFrame ==
  ASSUME TypeOK, NEW r \in Runs, EndRun(r)
  PROVE  /\ run'[r].step = "ended" /\ run'[r].message = run[r].message
         /\ \A q \in Runs \ {r} :
              /\ run'[q] = run[q]
              /\ \A m \in Messages : messageLock[m] = q => messageLock'[m] = q
              /\ \A m \in Messages : handoffLock[m] = q => handoffLock'[m] = q
              /\ rowLock = q => rowLock' = q
BY DEF TypeOK, EndRun, Go

\* A run that ends without success disturbs no other run.
LEMMA GiveUpHolding ==
  ASSUME TypeOK, Holding, NEW r \in Runs, ~At(r, "idle"), GiveUp(r)
  PROVE  Holding'
<1> SUFFICES ASSUME NEW q \in Runs
             PROVE  /\ ~At(q, "idle")' => run'[q].message \in Messages
                    /\ At(q, "checked")' =>
                         /\ messageLock'[run'[q].message] = q
                         /\ reply'[run'[q].message] = "none"
                    /\ run'[q].step \in {"keyed", "inserted"} =>
                         /\ handoffLock'[run'[q].message] = q
                         /\ handoff'[run'[q].message].status = "none"
                    /\ At(q, "inserted")' => rowLock' = q /\ status' = "bot"
  BY DEF Holding
<1>1. CASE q = r
  BY <1>1, EndRunFrame DEF GiveUp, Holding, At
<1>2. CASE q # r
  BY <1>2, EndRunFrame DEF GiveUp, Holding, At, conversation
<1> QED BY <1>1, <1>2

\* A step that leaves the runs and their locks alone, takes no reply back and
\* moves neither a missing handoff nor a conversation that is locked.
LEMMA QuietHolding ==
  ASSUME TypeOK, Holding, UNCHANGED <<run, locks, reply>>,
         \A m \in Messages : handoff[m].status = "none" => handoff'[m].status = "none",
         rowLock = Nobody \/ status' = status
  PROVE  Holding'
BY ConversationsAssumption DEF Holding, At, locks, TypeOK

LEMMA HoldingStep == TypeOK /\ Holding /\ [Next]_vars => Holding'
<1> SUFFICES ASSUME TypeOK, Holding, [Next]_vars PROVE Holding'
  OBVIOUS
<1> USE ConversationsAssumption
<1>1. ASSUME NEW m \in Messages, Receive(m) PROVE Holding'
  BY <1>1, QuietHolding DEF Receive, conversation
<1>2. ASSUME NEW r \in Runs, NEW m \in Messages, Start(r, m) PROVE Holding'
  BY <1>2 DEF Start, Holding, At, TypeOK, conversation, locks
<1>3. ASSUME NEW r \in Runs, Decide(r) PROVE Holding'
  BY <1>3 DEF Decide, Go, Holding, At, TypeOK, conversation, locks
<1>4. ASSUME NEW r \in Runs, CheckAnswer(r) PROVE Holding'
  <2>1. CASE reply[run[r].message] = "none" /\ status = "bot"
    <3>1. \A q \in Runs \ {r} : run'[q] = run[q]
      BY <1>4, <2>1 DEF CheckAnswer, Go, TypeOK
    <3>2. run'[r].step = "checked" /\ run'[r].message = run[r].message
      BY <1>4, <2>1 DEF CheckAnswer, Go, TypeOK
    <3>3. run[r].message \in Messages
      BY <1>4 DEF CheckAnswer, Holding, At
    <3>4. messageLock'[run[r].message] = r
      BY <1>4, <2>1, <3>3 DEF CheckAnswer, TypeOK
    <3>5. \A q \in Runs \ {r} : At(q, "checked") =>
            run[q].message # run[r].message /\ messageLock'[run[q].message] = q
      BY <1>4, <2>1 DEF CheckAnswer, Holding, At, TypeOK
    <3> QED
      BY <1>4, <2>1, <3>1, <3>2, <3>3, <3>4, <3>5 DEF CheckAnswer, Holding, At, conversation
  <2>2. CASE ~(reply[run[r].message] = "none" /\ status = "bot")
    BY <1>4, <2>2, GiveUpHolding DEF CheckAnswer, GiveUp, At
  <2> QED BY <2>1, <2>2
<1>5. ASSUME NEW r \in Runs, SendAnswer(r) PROVE Holding'
  <2>1. \A q \in Runs \ {r} : At(q, "checked") => run[q].message # run[r].message
    BY <1>5 DEF SendAnswer, Holding, At
  <2>2. \A q \in Runs \ {r} : At(q, "checked") => reply'[run[q].message] = "none"
    BY <1>5, <2>1 DEF SendAnswer, Holding, At, TypeOK
  <2>3. run[r].message \in Messages
    BY <1>5 DEF SendAnswer, Holding, At
  <2>4. EndRun(r) /\ UNCHANGED <<conversation, handoff>>
    BY <1>5 DEF SendAnswer
  <2> QED
    BY <2>2, <2>3, <2>4, EndRunFrame DEF Holding, At, conversation
<1>6. ASSUME NEW r \in Runs, TakeHandoffKey(r) PROVE Holding'
  <2>1. CASE handoff[run[r].message].status = "none"
    <3>1. \A q \in Runs \ {r} : run'[q] = run[q]
      BY <1>6, <2>1 DEF TakeHandoffKey, Go, TypeOK
    <3>2. run'[r].step = "keyed" /\ run'[r].message = run[r].message
      BY <1>6, <2>1 DEF TakeHandoffKey, Go, TypeOK
    <3>3. run[r].message \in Messages
      BY <1>6 DEF TakeHandoffKey, Holding, At
    <3>4. handoffLock'[run[r].message] = r
      BY <1>6, <2>1, <3>3 DEF TakeHandoffKey, TypeOK
    <3>5. \A q \in Runs \ {r} : run[q].step \in {"keyed", "inserted"} =>
            handoffLock'[run[q].message] = q
      BY <1>6, <2>1 DEF TakeHandoffKey, Holding, At, TypeOK
    <3> QED
      BY <1>6, <2>1, <3>1, <3>2, <3>3, <3>4, <3>5 DEF TakeHandoffKey, Holding, At, conversation
  <2>2. CASE handoff[run[r].message].status # "none"
    BY <1>6, <2>2, GiveUpHolding DEF TakeHandoffKey, GiveUp, At
  <2> QED BY <2>1, <2>2
<1>7. ASSUME NEW r \in Runs, InsertHandoff(r) PROVE Holding'
  <2>1. CASE status = "bot"
    <3>1. \A q \in Runs \ {r} : run'[q] = run[q]
      BY <1>7, <2>1 DEF InsertHandoff, Go, TypeOK
    <3>2. run'[r].step = "inserted" /\ run'[r].message = run[r].message
      BY <1>7, <2>1 DEF InsertHandoff, Go, TypeOK
    <3>3. \A q \in Runs : ~At(q, "inserted")
      BY <1>7 DEF InsertHandoff, Holding, At
    <3> QED
      BY <1>7, <2>1, <3>1, <3>2, <3>3 DEF InsertHandoff, Holding, At, conversation
  <2>2. CASE status # "bot"
    BY <1>7, <2>2, GiveUpHolding DEF InsertHandoff, GiveUp, At
  <2> QED BY <2>1, <2>2
<1>8. ASSUME NEW r \in Runs, CommitHandoff(r) PROVE Holding'
  <2>1. CASE reply[run[r].message] = "none"
    <3>1. /\ run[r].message \in Messages
          /\ messageLock[run[r].message] = Nobody
          /\ handoffLock[run[r].message] = r
          /\ rowLock = r
      BY <1>8 DEF CommitHandoff, Holding, At
    <3>2. \A q \in Runs \ {r} :
            /\ At(q, "checked") => run[q].message # run[r].message
            /\ run[q].step \in {"keyed", "inserted"} => run[q].message # run[r].message
            /\ ~At(q, "inserted")
      BY <3>1 DEF Holding, At
    <3>3. /\ EndRun(r)
          /\ \A m \in Messages \ {run[r].message} :
               reply'[m] = reply[m] /\ handoff'[m] = handoff[m]
      BY <1>8, <2>1 DEF CommitHandoff, TypeOK
    <3> QED
      BY <3>1, <3>2, <3>3, EndRunFrame DEF Holding, At
  <2>2. CASE reply[run[r].message] # "none"
    BY <1>8, <2>2, GiveUpHolding DEF CommitHandoff, GiveUp, At
  <2> QED BY <2>1, <2>2
<1>9. ASSUME NEW r \in Runs, Crash(r) \/ DeadlockVictim(r) PROVE Holding'
  <2>1. ~At(r, "idle") /\ GiveUp(r)
    BY <1>9 DEF Crash, DeadlockVictim, Deadlocked, GiveUp, At
  <2> QED BY <2>1, GiveUpHolding
<1>10. ASSUME NEW u \in Members, Load(u) PROVE Holding'
  BY <1>10, QuietHolding DEF Load, conversation
<1>11. ASSUME NEW u \in Members, Claim(u) PROVE Holding'
  BY <1>11, QuietHolding DEF Claim, Locked, MoveHandoffs
<1>12. ASSUME NEW u \in Members, Release(u) PROVE Holding'
  BY <1>12, QuietHolding DEF Release, Locked
<1>13. ASSUME NEW u \in Members, NEW target \in ConversationStatus, Transition(u, target)
       PROVE  Holding'
  <2>1. \A m \in Messages : handoff[m].status = "none" => handoff'[m].status = "none"
    <3>1. CASE target = "human"
      BY <1>13, <3>1 DEF Transition, MoveHandoffs
    <3>2. CASE target = "needs_human"
      BY <1>13, <3>2 DEF Transition, MoveHandoffs
    <3>3. CASE target \notin {"human", "needs_human"}
      BY <1>13, <3>3 DEF Transition, Open
    <3> QED BY <3>1, <3>2, <3>3
  <2> QED BY <1>13, <2>1, QuietHolding DEF Transition, Locked
<1>14. ASSUME NEW u \in Members, UpdateLinks(u) PROVE Holding'
  BY <1>14, QuietHolding DEF UpdateLinks, Locked
<1>15. ASSUME NEW u \in Members, CheckMessage(u) \/ SendMessage(u) \/ AbortMessage(u)
       PROVE  Holding'
  BY <1>15, QuietHolding DEF CheckMessage, SendMessage, AbortMessage, conversation
<1>16. ASSUME LinkDraft \/ LinkOrder PROVE Holding'
  BY <1>16, QuietHolding DEF LinkDraft, LinkOrder
<1>17. CASE UNCHANGED vars
  BY <1>17, QuietHolding DEF vars, conversation
<1> QED
  BY <1>1, <1>2, <1>3, <1>4, <1>5, <1>6, <1>7, <1>8, <1>9, <1>10, <1>11, <1>12,
     <1>13, <1>14, <1>15, <1>16, <1>17 DEF Next, RunNext, MemberNext

-----------------------------------------------------------------------------
(* The conversation and its handoffs.                                      *)

\* A conversation with the bot has no open handoff: this is what makes a new
\* one the only one.
LEMMA BotHasNoOpenHandoff ==
  ASSUME HandoffFollowsConversation, status = "bot"
  PROVE  \A m \in Messages : ~Open(m)
BY DEF HandoffFollowsConversation, Open

\* The steps that move neither the conversation nor a handoff.
StaysPut == UNCHANGED <<status, assignee, handoff>>

LEMMA QuietStays ==
  ASSUME [Next]_vars
  PROVE  \/ StaysPut
         \/ \E r \in Runs : CommitHandoff(r) /\ reply[run[r].message] = "none"
         \/ \E u \in Members :
              Claim(u) \/ Release(u) \/ \E target \in ConversationStatus : Transition(u, target)
<1>1. ASSUME NEW m \in Messages, Receive(m) PROVE StaysPut
  BY <1>1 DEF Receive, StaysPut, conversation
<1>2. ASSUME NEW r \in Runs, NEW m \in Messages, Start(r, m) PROVE StaysPut
  BY <1>2 DEF Start, StaysPut, conversation
<1>3. ASSUME NEW r \in Runs,
             Decide(r) \/ CheckAnswer(r) \/ SendAnswer(r) \/ TakeHandoffKey(r)
               \/ InsertHandoff(r) \/ Crash(r) \/ DeadlockVictim(r)
      PROVE  StaysPut
  BY <1>3 DEF Decide, CheckAnswer, SendAnswer, TakeHandoffKey, InsertHandoff, Crash,
     DeadlockVictim, StaysPut, conversation
<1>4. ASSUME NEW r \in Runs, CommitHandoff(r), reply[run[r].message] # "none"
      PROVE  StaysPut
  BY <1>4 DEF CommitHandoff, StaysPut, conversation
<1>5. ASSUME NEW u \in Members,
             Load(u) \/ UpdateLinks(u) \/ CheckMessage(u) \/ SendMessage(u) \/ AbortMessage(u)
      PROVE  StaysPut
  BY <1>5 DEF Load, UpdateLinks, MoveTo, CheckMessage, SendMessage, AbortMessage, StaysPut,
     conversation
<1>6. ASSUME LinkDraft \/ LinkOrder PROVE StaysPut
  BY <1>6 DEF LinkDraft, LinkOrder, MoveTo, StaysPut
<1>7. CASE UNCHANGED vars
  BY <1>7 DEF vars, conversation, StaysPut
<1> QED
  BY <1>1, <1>2, <1>3, <1>4, <1>5, <1>6, <1>7 DEF Next, RunNext, MemberNext

LEMMA HandoffFollowsStep ==
  TypeOK /\ Holding /\ HandoffFollowsConversation /\ [Next]_vars
    => HandoffFollowsConversation'
<1> SUFFICES ASSUME TypeOK, Holding, HandoffFollowsConversation, [Next]_vars
             PROVE  HandoffFollowsConversation'
  OBVIOUS
<1> USE ConversationsAssumption
<1>1. CASE StaysPut
  BY <1>1 DEF StaysPut, HandoffFollowsConversation, Open
<1>2. ASSUME NEW r \in Runs, CommitHandoff(r), reply[run[r].message] = "none"
      PROVE  HandoffFollowsConversation'
  <2>1. status = "bot"
    BY <1>2 DEF CommitHandoff, Holding, At
  <2>2. status' = "needs_human" /\ assignee' = Nobody
    BY <1>2 DEF CommitHandoff, MoveTo
  <2>3. handoff' = [handoff EXCEPT ![run[r].message] =
                     [status |-> "pending", assignee |-> Nobody]]
    BY <1>2 DEF CommitHandoff
  <2>4. \A m \in Messages : ~Open(m)
    BY <2>1, BotHasNoOpenHandoff
  <2>5. \A m \in Messages : Open(m)' => m = run[r].message /\ handoff'[m].status = "pending"
    BY <2>3, <2>4 DEF Open, TypeOK
  <2> QED BY <2>2, <2>5 DEF HandoffFollowsConversation, Open
<1>3. ASSUME NEW u \in Members, Claim(u) PROVE HandoffFollowsConversation'
  <2>1. status # "human" /\ status' = "human" /\ assignee' = u
    BY <1>3 DEF Claim, MoveTo
  <2>2. \A m \in Messages : handoff[m].status # "active"
    BY <2>1 DEF HandoffFollowsConversation
  <2>3. \A m \in Messages : Open(m)' =>
          Open(m) /\ handoff'[m] = [status |-> "active", assignee |-> u]
    BY <1>3, <2>2 DEF Claim, MoveHandoffs, Open, TypeOK
  <2> QED BY <2>1, <2>3 DEF HandoffFollowsConversation, Open
<1>4. ASSUME NEW u \in Members, Release(u) PROVE HandoffFollowsConversation'
  <2>1. status = "human" /\ assignee = u /\ status' = "needs_human" /\ assignee' = Nobody
    BY <1>4 DEF Release, MoveTo
  <2>2. \A m \in Messages :
          Open(m) => handoff[m].status = "active" /\ handoff[m].assignee = u
    BY <2>1 DEF HandoffFollowsConversation, Open
  <2>3. \A m \in Messages : Open(m) => handoff[m] = [status |-> "active", assignee |-> u]
    BY <2>2 DEF TypeOK
  <2>4. \A m \in Messages : Open(m)' =>
          Open(m) /\ handoff'[m] = [status |-> "pending", assignee |-> Nobody]
    BY <1>4, <2>3 DEF Release, Open
  <2> QED BY <2>1, <2>4 DEF HandoffFollowsConversation, Open
<1>5. ASSUME NEW u \in Members, NEW target \in ConversationStatus, Transition(u, target)
      PROVE  HandoffFollowsConversation'
  <2>1. /\ target \in transitions[status]
        /\ status' = target
        /\ assignee' = IF target = "human" THEN u ELSE Nobody
    BY <1>5 DEF Transition, MoveTo
  <2>2. target # status
    BY <2>1 DEF transitions, TypeOK, ConversationStatus
  <2>3. CASE target = "human"
    <3>1. \A m \in Messages : handoff[m].status # "active"
      BY <2>2, <2>3 DEF HandoffFollowsConversation
    <3>2. \A m \in Messages : Open(m)' =>
            Open(m) /\ handoff'[m] = [status |-> "active", assignee |-> u]
      BY <1>5, <2>3, <3>1 DEF Transition, MoveHandoffs, Open, TypeOK
    <3> QED BY <2>1, <2>3, <3>2 DEF HandoffFollowsConversation, Open
  <2>4. CASE target = "needs_human"
    <3>1. \A m \in Messages : handoff[m].status # "pending"
      BY <2>2, <2>4 DEF HandoffFollowsConversation
    <3>2. \A m \in Messages : Open(m)' => Open(m) /\ handoff'[m].status = "pending"
      <4>1. CASE status = "human"
        BY <1>5, <2>4, <3>1, <4>1 DEF Transition, MoveHandoffs, Open, TypeOK
      <4>2. CASE status # "human"
        <5>1. \A m \in Messages : ~Open(m)
          BY <3>1, <4>2 DEF HandoffFollowsConversation, Open
        <5> QED BY <1>5, <2>4, <4>2, <5>1 DEF Transition, Open
      <4> QED BY <4>1, <4>2
    <3> QED BY <2>1, <2>4, <3>2 DEF HandoffFollowsConversation, Open
  <2>5. CASE target \notin {"human", "needs_human"}
    <3>1. \A m \in Messages : ~Open(m)'
      BY <1>5, <2>5 DEF Transition, Open, TypeOK
    <3> QED BY <2>1, <2>5, <3>1 DEF HandoffFollowsConversation, Open
  <2> QED BY <2>3, <2>4, <2>5
<1> QED BY <1>1, <1>2, <1>3, <1>4, <1>5, QuietStays

\* A step neither invents nor forgets a handoff but the commit of a request,
\* and a resolved one stays as it is.
LEMMA HandoffsKept ==
  ASSUME TypeOK, Holding, [Next]_vars, NEW m \in Messages
  PROVE  /\ handoff[m].status # "none" => handoff'[m].status # "none"
         /\ handoff[m].status = "resolved" => handoff'[m] = handoff[m]
         /\ handoff[m].status = "none" =>
              \/ handoff'[m].status = "none"
              \/ \E r \in Runs : CommitHandoff(r) /\ reply[run[r].message] = "none"
                                 /\ m = run[r].message
<1>1. CASE StaysPut
  BY <1>1 DEF StaysPut
<1>2. ASSUME NEW r \in Runs, CommitHandoff(r), reply[run[r].message] = "none"
      PROVE  /\ handoff[run[r].message].status = "none"
             /\ handoff' = [handoff EXCEPT ![run[r].message] =
                              [status |-> "pending", assignee |-> Nobody]]
  BY <1>2 DEF CommitHandoff, Holding, At
<1>3. ASSUME NEW u \in Members,
             Claim(u) \/ Release(u) \/ \E target \in ConversationStatus : Transition(u, target)
      PROVE  /\ handoff[m].status # "none" => handoff'[m].status # "none"
             /\ handoff[m].status = "resolved" => handoff'[m] = handoff[m]
             /\ handoff[m].status = "none" => handoff'[m].status = "none"
  <2>1. CASE Claim(u)
    BY <2>1 DEF Claim, MoveHandoffs
  <2>2. CASE Release(u)
    BY <2>2 DEF Release
  <2>3. ASSUME NEW target \in ConversationStatus, Transition(u, target)
        PROVE  /\ handoff[m].status # "none" => handoff'[m].status # "none"
               /\ handoff[m].status = "resolved" => handoff'[m] = handoff[m]
               /\ handoff[m].status = "none" => handoff'[m].status = "none"
    <3>1. CASE target = "human"
      BY <2>3, <3>1 DEF Transition, MoveHandoffs
    <3>2. CASE target = "needs_human"
      BY <2>3, <3>2 DEF Transition, MoveHandoffs
    <3>3. CASE target \notin {"human", "needs_human"}
      BY <2>3, <3>3 DEF Transition, Open, TypeOK
    <3> QED BY <3>1, <3>2, <3>3
  <2> QED BY <1>3, <2>1, <2>2, <2>3
<1> QED BY <1>1, <1>2, <1>3, QuietStays DEF TypeOK

\* A step takes no message to the customer back, and sends one only for a
\* message that has none.
LEMMA RepliesKept ==
  ASSUME TypeOK, Holding, [Next]_vars
  PROVE  \/ reply' = reply
         \/ \E r \in Runs :
              /\ reply[run[r].message] = "none"
              /\ \/ /\ SendAnswer(r)
                    /\ reply' = [reply EXCEPT ![run[r].message] = "answer"]
                 \/ /\ CommitHandoff(r)
                    /\ reply' = [reply EXCEPT ![run[r].message] = "notice"]
<1>1. ASSUME NEW m \in Messages, Receive(m) PROVE reply' = reply
  BY <1>1 DEF Receive
<1>2. ASSUME NEW r \in Runs, NEW m \in Messages, Start(r, m) PROVE reply' = reply
  BY <1>2 DEF Start
<1>3. ASSUME NEW r \in Runs,
             Decide(r) \/ CheckAnswer(r) \/ TakeHandoffKey(r)
               \/ InsertHandoff(r) \/ Crash(r) \/ DeadlockVictim(r)
      PROVE  reply' = reply
  BY <1>3 DEF Decide, CheckAnswer, TakeHandoffKey, InsertHandoff, Crash, DeadlockVictim
<1>4. ASSUME NEW r \in Runs, SendAnswer(r)
      PROVE  /\ reply[run[r].message] = "none"
             /\ reply' = [reply EXCEPT ![run[r].message] = "answer"]
  BY <1>4 DEF SendAnswer, Holding, At
<1>5. ASSUME NEW r \in Runs, CommitHandoff(r)
      PROVE  \/ reply' = reply
             \/ /\ reply[run[r].message] = "none"
                /\ reply' = [reply EXCEPT ![run[r].message] = "notice"]
  BY <1>5 DEF CommitHandoff
<1>6. ASSUME NEW u \in Members, MemberNext(u) PROVE reply' = reply
  BY <1>6 DEF MemberNext, Load, Claim, Release, Transition, UpdateLinks, CheckMessage,
     SendMessage, AbortMessage
<1>7. ASSUME LinkDraft \/ LinkOrder PROVE reply' = reply
  BY <1>7 DEF LinkDraft, LinkOrder
<1>8. CASE UNCHANGED vars
  BY <1>8 DEF vars
<1> QED
  BY <1>1, <1>2, <1>3, <1>4, <1>5, <1>6, <1>7, <1>8 DEF Next, RunNext

LEMMA NoticeStep ==
  TypeOK /\ Holding /\ NoticeIffHandoff /\ [Next]_vars => NoticeIffHandoff'
<1> SUFFICES ASSUME TypeOK, Holding, NoticeIffHandoff, [Next]_vars, NEW m \in Messages
             PROVE  reply'[m] = "notice" <=> handoff'[m].status # "none"
  BY DEF NoticeIffHandoff
<1>1. ASSUME NEW r \in Runs, CommitHandoff(r), reply[run[r].message] = "none"
      PROVE  reply'[m] = "notice" <=> handoff'[m].status # "none"
  BY <1>1 DEF CommitHandoff, TypeOK, NoticeIffHandoff
<1>2. CASE ~\E r \in Runs : CommitHandoff(r) /\ reply[run[r].message] = "none"
  <2>1. handoff[m].status = "none" <=> handoff'[m].status = "none"
    BY <1>2, HandoffsKept
  <2>2. reply[m] = "notice" <=> reply'[m] = "notice"
    BY <1>2, RepliesKept DEF TypeOK
  <2> QED BY <2>1, <2>2 DEF NoticeIffHandoff
<1> QED BY <1>1, <1>2

LEMMA ToldOnceStep ==
  ASSUME TypeOK, Holding, [Next]_vars
  PROVE  \A m \in Messages :
           /\ reply[m] # "none" => reply'[m] = reply[m]
           /\ handoff[m].status # "none" => handoff'[m].status # "none"
           /\ handoff[m].status = "resolved" => handoff'[m] = handoff[m]
<1> TAKE m \in Messages
<1>1. reply[m] # "none" => reply'[m] = reply[m]
  BY RepliesKept DEF TypeOK
<1> QED BY <1>1, HandoffsKept

-----------------------------------------------------------------------------
(* Versions.                                                               *)

\* A step leaves the conversation alone or gives it a version of its own.
LEMMA VersionStep ==
  ASSUME TypeOK, [Next]_vars
  PROVE  \/ /\ UNCHANGED conversation
            /\ \/ UNCHANGED seen
               \/ \E u \in Members : seen' = [seen EXCEPT ![u] =
                    [status |-> status, assignee |-> assignee, version |-> version]]
         \/ version' = version + 1 /\ UNCHANGED seen
<1>1. ASSUME NEW m \in Messages, Receive(m) PROVE UNCHANGED <<conversation, seen>>
  BY <1>1 DEF Receive
<1>2. ASSUME NEW r \in Runs, NEW m \in Messages, Start(r, m)
      PROVE  UNCHANGED <<conversation, seen>>
  BY <1>2 DEF Start
<1>3. ASSUME NEW r \in Runs,
             Decide(r) \/ CheckAnswer(r) \/ SendAnswer(r) \/ TakeHandoffKey(r)
               \/ InsertHandoff(r) \/ Crash(r) \/ DeadlockVictim(r)
      PROVE  UNCHANGED <<conversation, seen>>
  BY <1>3 DEF Decide, CheckAnswer, SendAnswer, TakeHandoffKey, InsertHandoff, Crash,
     DeadlockVictim
<1>4. ASSUME NEW r \in Runs, CommitHandoff(r)
      PROVE  UNCHANGED seen /\ (UNCHANGED conversation \/ version' = version + 1)
  BY <1>4 DEF CommitHandoff, MoveTo
<1>5. ASSUME NEW u \in Members, CheckMessage(u) \/ SendMessage(u) \/ AbortMessage(u)
      PROVE  UNCHANGED <<conversation, seen>>
  BY <1>5 DEF CheckMessage, SendMessage, AbortMessage
<1>6. ASSUME NEW u \in Members,
             Claim(u) \/ Release(u) \/ UpdateLinks(u)
               \/ \E target \in ConversationStatus : Transition(u, target)
      PROVE  UNCHANGED seen /\ version' = version + 1
  BY <1>6 DEF Claim, Release, UpdateLinks, Transition, MoveTo
<1>7. ASSUME NEW u \in Members, Load(u)
      PROVE  UNCHANGED conversation /\ seen' = [seen EXCEPT ![u] =
               [status |-> status, assignee |-> assignee, version |-> version]]
  BY <1>7 DEF Load
<1>8. ASSUME LinkDraft \/ LinkOrder PROVE UNCHANGED seen /\ version' = version + 1
  BY <1>8 DEF LinkDraft, LinkOrder, MoveTo
<1>9. CASE UNCHANGED vars
  BY <1>9 DEF vars
<1> QED
  BY <1>1, <1>2, <1>3, <1>4, <1>5, <1>6, <1>7, <1>8, <1>9 DEF Next, RunNext, MemberNext

LEMMA SeenStep ==
  TypeOK /\ SeenNotAhead /\ VersionIdentifiesState /\ [Next]_vars
    => SeenNotAhead' /\ VersionIdentifiesState'
<1> SUFFICES ASSUME TypeOK, SeenNotAhead, VersionIdentifiesState, [Next]_vars
             PROVE  SeenNotAhead' /\ VersionIdentifiesState'
  OBVIOUS
<1>1. CASE UNCHANGED conversation /\ UNCHANGED seen
  BY <1>1 DEF conversation, SeenNotAhead, VersionIdentifiesState
<1>2. ASSUME UNCHANGED conversation, NEW u \in Members,
             seen' = [seen EXCEPT ![u] =
               [status |-> status, assignee |-> assignee, version |-> version]]
      PROVE  SeenNotAhead' /\ VersionIdentifiesState'
  BY <1>2 DEF conversation, SeenNotAhead, VersionIdentifiesState, TypeOK
<1>3. CASE version' = version + 1 /\ UNCHANGED seen
  BY <1>3 DEF SeenNotAhead, VersionIdentifiesState, TypeOK
<1> QED BY <1>1, <1>2, <1>3, VersionStep

-----------------------------------------------------------------------------
\* The inductive invariant: what a run holds while it holds its locks, and the
\* properties of the conversation, its handoffs and its versions.
THEOREM Invariance == Spec => []Inv
<1>1. Inv /\ [Next]_vars => Inv'
  BY TypeStep, HoldingStep, HandoffFollowsStep, NoticeStep, SeenStep DEF Inv
<1> QED BY <1>1, InitInv, PTL DEF Spec

-----------------------------------------------------------------------------
\* The tables, the locks and the positions of the runs keep their types: the
\* writes of conversation.service.ts produce only states its schema knows.
THEOREM TypeCorrect == Spec => []TypeOK
<1>1. Inv => TypeOK
  BY DEF Inv
<1> QED BY <1>1, Invariance, PTL

\* HUMAN_HANDOFF.md, lifecycle and ownership: pending handoffs wait with their
\* conversation in the queue, the active one is with its owner, one is open.
THEOREM HandoffFollowsInvariant == Spec => []HandoffFollowsConversation
<1>1. Inv => HandoffFollowsConversation
  BY DEF Inv
<1> QED BY <1>1, Invariance, PTL

\* The customer has been told of a handoff exactly when there is one.
THEOREM NoticeIffHandoffInvariant == Spec => []NoticeIffHandoff
<1>1. Inv => NoticeIffHandoff
  BY DEF Inv
<1> QED BY <1>1, Invariance, PTL

\* expectedVersion works: a version identifies the status and the owner.
THEOREM VersionIdentifiesInvariant == Spec => []VersionIdentifiesState
<1>1. Inv => VersionIdentifiesState
  BY DEF Inv
<1> QED BY <1>1, Invariance, PTL

\* No retry undoes or repeats an answer, a notice or a handoff.
THEOREM ToldOnceAlways == Spec => ToldOnce
<1>1. Inv /\ [Next]_vars =>
        \A m \in Messages :
          /\ reply[m] # "none" => reply'[m] = reply[m]
          /\ handoff[m].status # "none" => handoff'[m].status # "none"
          /\ handoff[m].status = "resolved" => handoff'[m] = handoff[m]
  BY ToldOnceStep DEF Inv
<1> QED BY <1>1, Invariance, PTL DEF Spec, ToldOnce
=============================================================================
