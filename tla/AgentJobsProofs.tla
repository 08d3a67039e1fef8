--------------------------- MODULE AgentJobsProofs ---------------------------
(***************************************************************************)
(* The jobs of the customer agent, for every number of messages, workers   *)
(* and attempts.                                                           *)
(*                                                                         *)
(* Jobs and calls only restrict when the runs of a conversation move, so   *)
(* that every theorem of ConversationsProofs holds of them; what a settled *)
(* job says of the customer follows from what a call knows of its reply.   *)
(***************************************************************************)
EXTENDS AgentJobs, ConversationsProofs

-----------------------------------------------------------------------------
\* The jobs leave the conversation to the conversation's own operations.
LEMMA JobsMoveConversation == [JobNext]_jobVars => [Next]_vars
<1> SUFFICES ASSUME [JobNext]_jobVars PROVE [Next]_vars
  OBVIOUS
<1>1. ASSUME NEW m \in Messages, Ingest(m) \/ AskForReply(m) \/ \E w \in Workers : ClaimJob(w, m)
      PROVE  [Next]_vars
  BY <1>1 DEF Ingest, AskForReply, ClaimJob, Next
<1>2. ASSUME NEW r \in Runs, BeginReply(r)
      PROVE  [Next]_vars
  <2>1. r[1] \in Messages
    BY AgentJobsAssumption
  <2> QED
    BY <1>2, <2>1 DEF BeginReply, MessageOf, Next
<1>3. ASSUME NEW r \in Runs, Reply(r) \/ CompleteJob(r) \/ FailJob(r)
      PROVE  [Next]_vars
  BY <1>3 DEF Reply, CompleteJob, FailJob, Next
<1>4. ASSUME NEW r \in Runs, ReplyFails(r) \/ BreakDeadlock(r) \/ LoseCall(r)
      PROVE  [Next]_vars
  BY <1>4 DEF ReplyFails, BreakDeadlock, LoseCall, Next
<1>5. CASE Others
  BY <1>5 DEF Others, Next
<1>6. CASE UNCHANGED jobVars
  BY <1>6 DEF jobVars
<1> QED
  BY <1>1, <1>2, <1>3, <1>4, <1>5, <1>6 DEF JobNext, CallNext

\* The queue implements the conversation: whatever is claimed, lost, retried or
\* settled, the conversation goes through steps of its own, so that all that is
\* proved of them holds of the agent's jobs.
THEOREM JobsImplementConversation == JobSpec => Spec
<1>1. JobInit => Init
  BY DEF JobInit
<1> QED
  BY <1>1, JobsMoveConversation, PTL DEF JobSpec, Spec

-----------------------------------------------------------------------------
\* The invariant.

JobRow == [status : JobStatus, attempts : 0..MaxAttempts, lockedBy : Workers \cup {Nobody}]

CallRow == [step : CallStep, worker : Workers \cup {Nobody}]

JobsTyped ==
  /\ job \in [Messages -> JobRow]
  /\ call \in [Runs -> CallRow]
  /\ \A m \in Messages : job[m].lockedBy # Nobody <=> job[m].status = "processing"

\* A job is queued with its message, and only then.
JobsAreOfReceived == \A m \in Messages : job[m].status # "none" => m \in received

RunsAnswerTheirMessage ==
  \A r \in Runs : ~At(r, "idle") => run[r].message = MessageOf(r)

\* A call that goes on to complete its job has seen the customer told.
RepliedIsTold ==
  \A r \in Runs : call[r].step = "replied" => reply[MessageOf(r)] # "none"

JobInv ==
  /\ Inv
  /\ JobsTyped
  /\ JobsAreOfReceived
  /\ RunsAnswerTheirMessage
  /\ RepliedIsTold
  /\ CompletedIsTold

LEMMA RunsAreClaims ==
  /\ \A r \in Runs : MessageOf(r) \in Messages
  /\ \A m \in Messages : \A n \in 0..MaxAttempts : <<m, n>> \in Runs
  BY AgentJobsAssumption DEF MessageOf

LEMMA JobsInitially == JobInit => JobInv
<1> SUFFICES ASSUME JobInit PROVE JobInv
  OBVIOUS
<1>1. Inv
  BY InitInv DEF JobInit
<1>2. JobsTyped
  BY AgentJobsAssumption DEF JobInit, JobsTyped, JobRow, CallRow, JobStatus, CallStep
<1>3. RunsAnswerTheirMessage
  BY DEF JobInit, Init, RunsAnswerTheirMessage, At
<1> QED
  BY <1>1, <1>2, <1>3 DEF JobInit, JobInv, JobsAreOfReceived, RepliedIsTold, CompletedIsTold

-----------------------------------------------------------------------------
\* Steps that the call of a run takes, and the jobs they may change.

LEMMA InvStep == Inv /\ [Next]_vars => Inv'
  BY TypeStep, HoldingStep, HandoffFollowsStep, NoticeStep, SeenStep DEF Inv

\* What the customer has been told stays told, and what is received stays so.
LEMMA ConversationGrows ==
  ASSUME Inv, [Next]_vars
  PROVE  /\ \A m \in Messages : reply[m] # "none" => reply'[m] # "none"
         /\ received \subseteq received'
<1>1. \A m \in Messages : reply[m] # "none" => reply'[m] # "none"
  BY ToldOnceStep DEF Inv
<1>2. ASSUME NEW m \in Messages, Receive(m) PROVE received \subseteq received'
  BY <1>2 DEF Receive
<1>3. ASSUME NEW r \in Runs, NEW m \in Messages, Start(r, m) PROVE received' = received
  BY <1>3 DEF Start
<1>4. ASSUME NEW r \in Runs, RunNext(r) \/ Crash(r) \/ DeadlockVictim(r)
      PROVE  received' = received
  BY <1>4 DEF RunNext, Decide, CheckAnswer, SendAnswer, TakeHandoffKey, InsertHandoff,
     CommitHandoff, Crash, DeadlockVictim
<1>5. ASSUME NEW u \in Members, MemberNext(u) PROVE received' = received
  BY <1>5 DEF MemberNext, Load, Claim, Release, Transition, UpdateLinks, CheckMessage,
     SendMessage, AbortMessage
<1>6. ASSUME LinkDraft \/ LinkOrder PROVE received' = received
  BY <1>6 DEF LinkDraft, LinkOrder
<1>7. CASE UNCHANGED vars
  BY <1>7 DEF vars
<1> QED
  BY <1>1, <1>2, <1>3, <1>4, <1>5, <1>6, <1>7 DEF Next

\* A run that works keeps its message, and the others stay where they are.
LEMMA RunKeepsMessage ==
  ASSUME TypeOK, NEW r \in Runs, RunNext(r) \/ Crash(r) \/ DeadlockVictim(r)
  PROVE  /\ ~At(r, "idle")
         /\ \A s \in Runs : run'[s].message = run[s].message
         /\ \A s \in Runs \ {r} : run'[s] = run[s]
<1>1. ~At(r, "idle")
  BY DEF RunNext, Decide, CheckAnswer, SendAnswer, TakeHandoffKey, InsertHandoff,
     CommitHandoff, Crash, DeadlockVictim, Deadlocked, At
<1>2. \E step \in RunStep : run' = [run EXCEPT ![r].step = step]
  <2>1. "ended" \in RunStep /\ "answering" \in RunStep /\ "escalating" \in RunStep
        /\ "checked" \in RunStep /\ "keyed" \in RunStep /\ "inserted" \in RunStep
    BY DEF RunStep
  <2> QED
    BY <2>1 DEF RunNext, Decide, CheckAnswer, SendAnswer, TakeHandoffKey, InsertHandoff,
       CommitHandoff, Crash, DeadlockVictim, EndRun, Go
<1>3. run \in [Runs -> [step : RunStep, message : Messages \cup {NoMessage}]]
  BY DEF TypeOK
<1> QED
  BY <1>1, <1>2, <1>3

\* The steps that leave every run where it is and every call that has replied.
LEMMA JobsSettled ==
  ASSUME JobInv, [Next]_vars, JobsTyped', JobsAreOfReceived', RunsAnswerTheirMessage',
         \A r \in Runs : call'[r].step = "replied" =>
           call[r].step = "replied" \/ reply'[MessageOf(r)] # "none",
         \A m \in Messages : job'[m].status = "completed" =>
           job[m].status = "completed" \/ reply[m] # "none"
  PROVE  JobInv'
<1>1. Inv'
  BY InvStep DEF JobInv
<1>2. RepliedIsTold'
  BY ConversationGrows, RunsAreClaims DEF JobInv, RepliedIsTold
<1>3. CompletedIsTold'
  BY ConversationGrows DEF JobInv, CompletedIsTold
<1> QED
  BY <1>1, <1>2, <1>3 DEF JobInv

\* A call that takes a step: its row, and nothing of the others.
LEMMA FinishTyped ==
  ASSUME call \in [Runs -> CallRow], NEW r \in Runs, NEW step \in CallStep, Finish(r, step)
  PROVE  /\ call' \in [Runs -> CallRow]
         /\ call'[r].step = step
         /\ \A s \in Runs \ {r} : call'[s] = call[s]
  BY DEF Finish, CallRow

LEMMA SettleTyped ==
  ASSUME JobsTyped, NEW r \in Runs, NEW state \in JobStatus \ {"processing"},
         SettleAs(r, state)
  PROVE  /\ job' \in [Messages -> JobRow]
         /\ \A m \in Messages : job'[m].lockedBy # Nobody <=> job'[m].status = "processing"
         /\ job'[MessageOf(r)].status = state
         /\ \A m \in Messages \ {MessageOf(r)} : job'[m] = job[m]
<1>1. MessageOf(r) \in Messages
  BY RunsAreClaims
<1> QED
  BY <1>1 DEF SettleAs, JobsTyped, JobRow

LEMMA SameJobs ==
  ASSUME JobInv, [Next]_vars, UNCHANGED job, call' \in [Runs -> CallRow],
         RunsAnswerTheirMessage',
         \A r \in Runs : call'[r].step = "replied" =>
           call[r].step = "replied" \/ reply'[MessageOf(r)] # "none"
  PROVE  JobInv'
<1>1. JobsTyped'
  BY DEF JobInv, JobsTyped
<1>2. JobsAreOfReceived'
  BY ConversationGrows DEF JobInv, JobsAreOfReceived
<1> QED
  BY <1>1, <1>2, JobsSettled

LEMMA SameRuns == JobInv /\ UNCHANGED run => RunsAnswerTheirMessage'
  BY DEF JobInv, RunsAnswerTheirMessage, At

LEMMA QueueKeeps ==
  ASSUME JobInv, NEW m \in Messages,
         Ingest(m) \/ AskForReply(m) \/ \E w \in Workers : ClaimJob(w, m)
  PROVE  JobInv'
<1>0. JobsTyped /\ job \in [Messages -> JobRow] /\ call \in [Runs -> CallRow]
  BY DEF JobInv, JobsTyped
<1>1. [Next]_vars
  BY JobsMoveConversation DEF JobNext
<1>2. CASE Ingest(m)
  <2>1. Receive(m) /\ UNCHANGED <<run, call>> /\ job' = [job EXCEPT ![m].status = "pending"]
    BY <1>2 DEF Ingest, Receive
  <2>2. m \in received' /\ m \notin received
    BY <2>1 DEF Receive
  <2>3. job[m].status = "none" /\ job[m].lockedBy = Nobody
    BY <1>0, <2>2 DEF JobInv, JobsAreOfReceived, JobsTyped
  <2>4. JobsTyped'
    BY <1>0, <2>1, <2>3 DEF JobsTyped, JobRow, JobStatus
  <2>5. JobsAreOfReceived'
    BY <1>0, <1>1, <2>1, <2>2, ConversationGrows DEF JobInv, JobsAreOfReceived
  <2>6. \A n \in Messages : job'[n].status = "completed" => job[n].status = "completed"
    BY <1>0, <2>1
  <2> QED
    BY <1>1, <2>1, <2>4, <2>5, <2>6, SameRuns, JobsSettled
<1>3. CASE AskForReply(m)
  <2>1. <<m, 0>> \in Runs
    BY RunsAreClaims, AgentJobsAssumption
  <2>2. UNCHANGED <<job, run>> /\ Finish(<<m, 0>>, "working")
    BY <1>3 DEF AskForReply, vars, Finish
  <2> QED
    BY <1>0, <1>1, <2>1, <2>2, FinishTyped, SameRuns, SameJobs DEF CallStep
<1>4. ASSUME NEW w \in Workers, ClaimJob(w, m)
      PROVE  JobInv'
  <2>1. UNCHANGED run /\ job[m].status \in ClaimableStatus /\ received' = received
    BY <1>4 DEF ClaimJob, vars
  <2>2. PICK n : n = job[m].attempts + 1
    OBVIOUS
  <2>3. n \in Nat /\ n # 0
    BY <1>0, <2>2 DEF JobRow
  <2>4. CASE n <= MaxAttempts
    <3>1. /\ job' = [job EXCEPT ![m] =
               [status |-> "processing", attempts |-> n, lockedBy |-> w]]
          /\ call' = [call EXCEPT ![<<m, n>>] = [step |-> "working", worker |-> w]]
      BY <1>4, <2>2, <2>4 DEF ClaimJob
    <3>2. n \in 0..MaxAttempts /\ <<m, n>> \in Runs
      BY <2>3, <2>4, RunsAreClaims, AgentJobsAssumption
    <3>3. [status |-> "processing", attempts |-> n, lockedBy |-> w] \in JobRow
      BY <3>2 DEF JobRow, JobStatus
    <3>4. [step |-> "working", worker |-> w] \in CallRow
      BY DEF CallRow, CallStep
    <3>5. JobsTyped'
      BY <1>0, <3>1, <3>3, <3>4, AgentJobsAssumption DEF JobsTyped
    <3>6. JobsAreOfReceived'
      BY <1>0, <2>1, <3>1 DEF JobInv, JobsAreOfReceived, ClaimableStatus
    <3>7. \A r \in Runs : call'[r].step = "replied" => call[r].step = "replied"
      BY <1>0, <3>1
    <3>8. \A q \in Messages : job'[q].status = "completed" => job[q].status = "completed"
      BY <1>0, <3>1
    <3> QED
      BY <1>1, <2>1, <3>5, <3>6, <3>7, <3>8, SameRuns, JobsSettled
  <2>5. CASE ~(n <= MaxAttempts)
    <3>1. /\ job' = [job EXCEPT ![m].status = "dead", ![m].lockedBy = Nobody]
          /\ UNCHANGED call
      BY <1>4, <2>2, <2>5 DEF ClaimJob
    <3>2. JobsTyped'
      BY <1>0, <3>1 DEF JobsTyped, JobRow, JobStatus
    <3>3. JobsAreOfReceived'
      BY <1>0, <2>1, <3>1 DEF JobInv, JobsAreOfReceived, ClaimableStatus
    <3>4. \A q \in Messages : job'[q].status = "completed" => job[q].status = "completed"
      BY <1>0, <3>1
    <3> QED
      BY <1>1, <2>1, <3>1, <3>2, <3>3, <3>4, SameRuns, JobsSettled
  <2> QED
    BY <2>4, <2>5
<1> QED
  BY <1>2, <1>3, <1>4

LEMMA BeginReplyKeeps ==
  ASSUME JobInv, NEW r \in Runs, BeginReply(r)
  PROVE  JobInv'
<1>0. call \in [Runs -> CallRow] /\ UNCHANGED job
  BY DEF JobInv, JobsTyped, BeginReply
<1>1. [Next]_vars
  BY JobsMoveConversation DEF JobNext, CallNext
<1>2. CASE Start(r, MessageOf(r)) /\ UNCHANGED call
  <2>1. run' = [run EXCEPT ![r] = [step |-> "thinking", message |-> MessageOf(r)]]
    BY <1>2 DEF Start
  <2>2. RunsAnswerTheirMessage'
    BY <2>1 DEF JobInv, Inv, TypeOK, RunsAnswerTheirMessage, At
  <2> QED
    BY <1>0, <1>1, <1>2, <2>2, SameJobs
<1>3. CASE Finish(r, IF reply[MessageOf(r)] # "none" THEN "replied" ELSE "refused")
           /\ UNCHANGED vars
  <2>1. UNCHANGED <<run, reply>>
    BY <1>3 DEF vars
  <2>2. CASE reply[MessageOf(r)] # "none"
    BY <1>0, <1>1, <1>3, <2>1, <2>2, FinishTyped, SameRuns, SameJobs DEF CallStep
  <2>3. CASE reply[MessageOf(r)] = "none"
    BY <1>0, <1>1, <1>3, <2>1, <2>3, FinishTyped, SameRuns, SameJobs DEF CallStep
  <2> QED
    BY <2>2, <2>3
<1> QED
  BY <1>2, <1>3 DEF BeginReply

\* A run that ends with a new message to the customer has answered its message.
LEMMA ReplyTells ==
  ASSUME JobInv, NEW r \in Runs, RunNext(r), reply' # reply
  PROVE  reply'[MessageOf(r)] # "none"
<1>1. ~At(r, "idle") /\ run[r].message = MessageOf(r)
  BY RunKeepsMessage DEF JobInv, Inv, RunsAnswerTheirMessage
<1>2. MessageOf(r) \in Messages /\ reply \in [Messages -> {"none", "answer", "notice"}]
  BY RunsAreClaims DEF JobInv, Inv, TypeOK
<1>3. reply' = [reply EXCEPT ![MessageOf(r)] = "answer"]
        \/ reply' = [reply EXCEPT ![MessageOf(r)] = IF @ = "none" THEN "notice" ELSE @]
        \/ reply' = [reply EXCEPT ![MessageOf(r)] = "notice"]
  BY <1>1 DEF RunNext, Decide, CheckAnswer, SendAnswer, TakeHandoffKey, InsertHandoff,
     CommitHandoff
<1> QED
  BY <1>2, <1>3

LEMMA ReplyKeeps ==
  ASSUME JobInv, NEW r \in Runs, Reply(r)
  PROVE  JobInv'
<1>0. call \in [Runs -> CallRow] /\ UNCHANGED job /\ TypeOK
  BY DEF JobInv, Inv, JobsTyped, Reply
<1>1. [Next]_vars
  BY JobsMoveConversation DEF JobNext, CallNext
<1>2. RunNext(r)
  BY DEF Reply
<1>3. RunsAnswerTheirMessage'
  BY <1>0, <1>2, RunKeepsMessage DEF JobInv, RunsAnswerTheirMessage, At
<1>4. CASE UNCHANGED call
  BY <1>0, <1>1, <1>3, <1>4, SameJobs
<1>5. CASE Finish(r, IF reply' # reply THEN "replied" ELSE "refused")
  <2>1. CASE reply' # reply
    <3>1. reply'[MessageOf(r)] # "none"
      BY <1>2, <2>1, ReplyTells
    <3>2. Finish(r, "replied")
      BY <1>5, <2>1
    <3> QED
      BY <1>0, <1>1, <1>3, <3>1, <3>2, FinishTyped, SameJobs DEF CallStep
  <2>2. CASE reply' = reply
    <3>1. Finish(r, "refused")
      BY <1>5, <2>2
    <3> QED
      BY <1>0, <1>1, <1>3, <3>1, FinishTyped, SameJobs DEF CallStep
  <2> QED
    BY <2>1, <2>2
<1> QED
  BY <1>4, <1>5 DEF Reply

\* Calls and runs that end early.
LEMMA FailuresKeep ==
  ASSUME JobInv, NEW r \in Runs, ReplyFails(r) \/ BreakDeadlock(r) \/ LoseCall(r)
  PROVE  JobInv'
<1>0. call \in [Runs -> CallRow] /\ UNCHANGED job /\ TypeOK
  BY DEF JobInv, Inv, JobsTyped, ReplyFails, BreakDeadlock, LoseCall
<1>1. [Next]_vars
  BY JobsMoveConversation DEF JobNext
<1>2. Finish(r, "failed") \/ Finish(r, "over")
  BY DEF ReplyFails, BreakDeadlock, LoseCall
<1>3. Crash(r) \/ DeadlockVictim(r) \/ UNCHANGED vars
  BY DEF ReplyFails, BreakDeadlock, LoseCall
<1>4. RunsAnswerTheirMessage'
  <2>1. CASE Crash(r) \/ DeadlockVictim(r)
    BY <1>0, <2>1, RunKeepsMessage DEF JobInv, RunsAnswerTheirMessage, At
  <2>2. CASE UNCHANGED vars
    BY <2>2, SameRuns DEF vars
  <2> QED
    BY <1>3, <2>1, <2>2
<1> QED
  BY <1>0, <1>1, <1>2, <1>4, FinishTyped, SameJobs DEF CallStep

LEMMA SettlementsKeep ==
  ASSUME JobInv, NEW r \in Runs, CompleteJob(r) \/ FailJob(r)
  PROVE  JobInv'
<1>0. call \in [Runs -> CallRow] /\ JobsTyped
  BY DEF JobInv, JobsTyped
<1>1. [Next]_vars /\ UNCHANGED <<run, received>> /\ Finish(r, "over")
  BY JobsMoveConversation DEF JobNext, CallNext, CompleteJob, FailJob, vars
<1>2. /\ call' \in [Runs -> CallRow]
      /\ \A s \in Runs : call'[s].step = "replied" => call[s].step = "replied"
  BY <1>0, <1>1, FinishTyped DEF CallStep
<1>3. CASE UNCHANGED job
  BY <1>1, <1>2, <1>3, SameRuns, SameJobs
<1>4. ASSUME NEW state \in {"completed", "pending", "dead"}, SettleAs(r, state), Owned(r),
             state = "completed" => call[r].step = "replied"
      PROVE  JobInv'
  <2>1. state \in JobStatus \ {"processing"}
    BY DEF JobStatus
  <2>2. JobsTyped'
    BY <1>0, <1>2, <1>4, <2>1, SettleTyped DEF JobsTyped
  <2>3. /\ job'[MessageOf(r)].status = state
        /\ \A m \in Messages \ {MessageOf(r)} : job'[m] = job[m]
    BY <1>0, <1>4, <2>1, SettleTyped
  <2>4. JobsAreOfReceived'
    BY <1>1, <1>4, <2>3, RunsAreClaims DEF JobInv, JobsAreOfReceived, Owned
  <2>5. \A m \in Messages : job'[m].status = "completed" =>
          job[m].status = "completed" \/ reply[m] # "none"
    BY <1>4, <2>3 DEF JobInv, RepliedIsTold
  <2> QED
    BY <1>1, <1>2, <2>2, <2>4, <2>5, SameRuns, JobsSettled
<1>5. \/ UNCHANGED job
      \/ Owned(r) /\ SettleAs(r, "completed") /\ call[r].step = "replied"
      \/ Owned(r) /\ SettleAs(r, "pending")
      \/ Owned(r) /\ SettleAs(r, "dead")
  BY DEF CompleteJob, FailJob
<1> QED
  BY <1>3, <1>4, <1>5

LEMMA JobStep == JobInv /\ [JobNext]_jobVars => JobInv'
<1> SUFFICES ASSUME JobInv, [JobNext]_jobVars PROVE JobInv'
  OBVIOUS
<1>1. ASSUME UNCHANGED <<job, call>>, [Next]_vars,
             UNCHANGED run
      PROVE  JobInv'
  BY <1>1, SameRuns, SameJobs DEF JobInv, JobsTyped
<1>2. CASE Others
  <2>1. UNCHANGED run
    BY <1>2 DEF Others, MemberNext, Load, Claim, Release, Transition, UpdateLinks,
       CheckMessage, SendMessage, AbortMessage, LinkDraft, LinkOrder
  <2> QED
    BY <1>1, <1>2, <2>1, JobsMoveConversation DEF Others
<1>3. CASE UNCHANGED jobVars
  BY <1>1, <1>3 DEF jobVars, vars
<1>4. ASSUME NEW r \in Runs, CallNext(r)
      PROVE  JobInv'
  BY <1>4, BeginReplyKeeps, ReplyKeeps, SettlementsKeep DEF CallNext
<1> QED
  BY <1>2, <1>3, <1>4, QueueKeeps, FailuresKeep DEF JobNext

-----------------------------------------------------------------------------
\* Jobs, calls and the conversation keep their types, and a job is owned by a
\* worker exactly while it is processed.
THEOREM JobTypeCorrect == JobSpec => []JobTypeOK
<1>1. JobInv => JobTypeOK
  BY DEF JobInv, Inv, JobsTyped, JobRow, CallRow, JobTypeOK
<1> QED
  BY <1>1, JobsInitially, JobStep, PTL DEF JobSpec

\* INSTAGRAM_INTEGRATION.md, automated agent processing: a completed job names a
\* customer who was told, whoever dies, comes late or is claimed again.
THEOREM CompletedIsToldInvariant == JobSpec => []CompletedIsTold
<1>1. JobInv => CompletedIsTold
  BY DEF JobInv
<1> QED
  BY <1>1, JobsInitially, JobStep, PTL DEF JobSpec

\* A job is settled once, though a claim names the worker and not the attempt.
THEOREM SettledOnceAlways == JobSpec => SettledOnce
<1>1. ASSUME JobInv, [JobNext]_jobVars, NEW m \in Messages, job[m].status \in {"completed", "dead"}
      PROVE  job'[m] = job[m]
  <2>1. ASSUME NEW n \in Messages, Ingest(n)
        PROVE  job'[m] = job[m]
    BY <1>1, <2>1 DEF Ingest, Receive, JobInv, JobsAreOfReceived
  <2>2. ASSUME NEW n \in Messages, NEW w \in Workers, ClaimJob(w, n)
        PROVE  job'[m] = job[m]
    BY <1>1, <2>2 DEF ClaimJob, ClaimableStatus, JobInv, JobsTyped
  <2>3. ASSUME NEW r \in Runs, CompleteJob(r) \/ FailJob(r)
        PROVE  job'[m] = job[m]
    BY <1>1, <2>3 DEF CompleteJob, FailJob, Owned, SettleAs, JobInv, JobsTyped
  <2>4. ASSUME NEW r \in Runs, BeginReply(r) \/ Reply(r) \/ ReplyFails(r) \/ BreakDeadlock(r)
                                 \/ LoseCall(r)
        PROVE  job'[m] = job[m]
    BY <2>4 DEF BeginReply, Reply, ReplyFails, BreakDeadlock, LoseCall
  <2>5. ASSUME NEW n \in Messages, AskForReply(n)
        PROVE  job'[m] = job[m]
    BY <2>5 DEF AskForReply
  <2>6. CASE Others \/ UNCHANGED jobVars
    BY <2>6 DEF Others, jobVars
  <2> QED
    BY <1>1, <2>1, <2>2, <2>3, <2>4, <2>5, <2>6 DEF JobNext, CallNext
<1>2. JobInv /\ [JobNext]_jobVars =>
        \A m \in Messages : job[m].status \in {"completed", "dead"} => job'[m] = job[m]
  BY <1>1
<1> QED
  BY <1>2, JobsInitially, JobStep, PTL DEF JobSpec, SettledOnce
=============================================================================
