----------------------------- MODULE AgentJobs -----------------------------
(***************************************************************************)
(* The queue that has the customer agent answer the messages of a          *)
(* conversation: message_processing_jobs, the worker that polls            *)
(* apps/worker/src/customer-agent-job-client.ts, and the API that claims a *)
(* job, lets the agent reply and settles the job                           *)
(* (customer-agent-job-processor.service.ts).  The replies are the runs of *)
(* Conversations, here with the transactions before and after them.        *)
(*                                                                         *)
(* A claim, a reply and a settlement are transactions of their own.  A     *)
(* claim is a lease that expires, at any time as far as the model goes;    *)
(* it names the worker and not the attempt.  The client of a worker gives  *)
(* up on a request before the API does, so that one worker may have        *)
(* several calls at work.                                                  *)
(*                                                                         *)
(* The runs are <<m, n>>: the n-th claim of the job of message m, and, for *)
(* n = 0, the reply that a member asks for (POST .../agent-reply).         *)
(***************************************************************************)
EXTENDS Conversations

CONSTANTS
  Workers,      \* the worker ids
  MaxAttempts   \* message_processing_jobs.max_attempts

ASSUME AgentJobsAssumption ==
  /\ MaxAttempts \in Nat \ {0}
  /\ Runs = Messages \X (0..MaxAttempts)
  /\ Nobody \notin Workers

JobStatus == {"none", "pending", "processing", "completed", "dead"}

\* What became of a call: it is working, its reply was given, refused for good
\* or failed in a way that may pass, or it is over.
CallStep == {"none", "working", "replied", "refused", "failed", "over"}

VARIABLES
  job,    \* message_processing_jobs, by their message
  call    \* what the API does for each claim, and for whom

jobVars == <<vars, job, call>>

MessageOf(r) == r[1]
AttemptOf(r) == r[2]

Owned(r) ==
  /\ job[MessageOf(r)].status = "processing"
  /\ job[MessageOf(r)].lockedBy = call[r].worker

JobInit ==
  /\ Init
  /\ job = [m \in Messages |-> [status |-> "none", attempts |-> 0, lockedBy |-> Nobody]]
  /\ call = [r \in Runs |-> [step |-> "none", worker |-> Nobody]]

\* The webhook stores the message and queues its job in one transaction.
Ingest(m) ==
  /\ Receive(m)
  /\ job' = [job EXCEPT ![m].status = "pending"]
  /\ UNCHANGED call

ClaimableStatus == {"pending", "processing"}

ClaimJob_NoLimit(w, m) ==
  /\ job[m].status \in ClaimableStatus
  /\ job' = [job EXCEPT ![m].status = "processing", ![m].lockedBy = w]
  /\ call' = [call EXCEPT ![<<m, MaxAttempts>>] = [step |-> "working", worker |-> w]]
  /\ UNCHANGED vars

\* app_claim_message_processing_job: a job that is due, or whose lease ran out.
ClaimJob(w, m) ==
  LET n == job[m].attempts + 1
  IN  /\ job[m].status \in ClaimableStatus
      /\ IF n <= MaxAttempts
         THEN /\ job' = [job EXCEPT ![m] =
                   [status |-> "processing", attempts |-> n, lockedBy |-> w]]
              /\ call' = [call EXCEPT ![<<m, n>>] = [step |-> "working", worker |-> w]]
         ELSE /\ job' = [job EXCEPT ![m].status = "dead", ![m].lockedBy = Nobody]
              /\ UNCHANGED call
      /\ UNCHANGED vars

\* A member asks for the reply to a message.
AskForReply(m) ==
  /\ m \in received
  /\ call[<<m, 0>>].step = "none"
  /\ call' = [call EXCEPT ![<<m, 0>>].step = "working"]
  /\ UNCHANGED <<vars, job>>

Finish(r, step) == call' = [call EXCEPT ![r].step = step]

\* CustomerAgentService.reply up to the model: a stored answer is replayed, and
\* only the latest message is answered, and only by a bot in charge.
BeginReply(r) ==
  LET m == MessageOf(r)
  IN  /\ call[r].step = "working"
      /\ At(r, "idle")
      /\ IF reply[m] = "none" /\ latest = m /\ status = "bot"
         THEN Start(r, m) /\ UNCHANGED call
         ELSE /\ Finish(r, IF reply[m] # "none" THEN "replied" ELSE "refused")
              /\ UNCHANGED vars
      /\ UNCHANGED job

\* A run ends with the customer told, or with a ConflictException.
Reply(r) ==
  /\ call[r].step = "working"
  /\ RunNext(r)
  /\ IF run'[r].step = "ended"
     THEN Finish(r, IF reply' # reply THEN "replied" ELSE "refused")
     ELSE UNCHANGED call
  /\ UNCHANGED job

\* A statement, a connection or the trace of the run fails: the transaction is
\* rolled back, and the call goes on with an error that may pass.
ReplyFails(r) ==
  /\ call[r].step = "working"
  /\ IF At(r, "idle") THEN UNCHANGED vars ELSE Crash(r)
  /\ Finish(r, "failed")
  /\ UNCHANGED job

\* So it is for the victim of a deadlock.
BreakDeadlock(r) ==
  /\ call[r].step = "working"
  /\ DeadlockVictim(r)
  /\ Finish(r, "failed")
  /\ UNCHANGED job

\* The process dies, or loses the database before it settles the job: nobody
\* settles it, and its lease will run out.
LoseCall(r) ==
  /\ call[r].step \in {"working", "replied", "refused", "failed"}
  /\ IF run[r].step \in {"idle", "ended"} THEN UNCHANGED vars ELSE Crash(r)
  /\ Finish(r, "over")
  /\ UNCHANGED job

SettleAs(r, state) ==
  job' = [job EXCEPT ![MessageOf(r)].status = state, ![MessageOf(r)].lockedBy = Nobody]

CompleteJob_AnyFailure(r) ==
  /\ AttemptOf(r) > 0
  /\ call[r].step \in {"replied", "failed"}
  /\ IF Owned(r) THEN SettleAs(r, "completed") ELSE UNCHANGED job
  /\ Finish(r, "over")
  /\ UNCHANGED vars

CompleteJob_NotOwned(r) ==
  /\ AttemptOf(r) > 0
  /\ call[r].step = "replied"
  /\ SettleAs(r, "completed")
  /\ Finish(r, "over")
  /\ UNCHANGED vars

\* app_complete_message_processing_job: an error when the lease is lost.
CompleteJob(r) ==
  /\ AttemptOf(r) > 0
  /\ call[r].step = "replied"
  /\ IF Owned(r) THEN SettleAs(r, "completed") ELSE UNCHANGED job
  /\ Finish(r, "over")
  /\ UNCHANGED vars

\* processNext's catch and app_fail_message_processing_job: a conflict is final,
\* another error is tried again while this attempt and the job allow it.
FailJob(r) ==
  LET m == MessageOf(r)
      retry == /\ call[r].step = "failed"
               /\ AttemptOf(r) < MaxAttempts
               /\ job[m].attempts < MaxAttempts
  IN  /\ AttemptOf(r) > 0
      /\ call[r].step \in {"refused", "failed"}
      /\ IF Owned(r) THEN SettleAs(r, IF retry THEN "pending" ELSE "dead")
                     ELSE UNCHANGED job
      /\ Finish(r, "over")
      /\ UNCHANGED vars

CallNext(r) ==
  \/ BeginReply(r)
  \/ Reply(r)
  \/ CompleteJob(r)
  \/ FailJob(r)

\* What happens to the conversation besides.
Others ==
  /\ \/ \E u \in Members : MemberNext(u)
     \/ LinkDraft
     \/ LinkOrder
  /\ UNCHANGED <<job, call>>

JobNext ==
  \/ \E m \in Messages :
       \/ Ingest(m)
       \/ AskForReply(m)
       \/ \E w \in Workers : ClaimJob(w, m)
  \/ \E r \in Runs :
       \/ CallNext(r)
       \/ ReplyFails(r)
       \/ BreakDeadlock(r)
       \/ LoseCall(r)
  \/ Others

JobSpec == JobInit /\ [][JobNext]_jobVars

\* Some worker polls for ever, so that a job that is due, or whose lease has run
\* out, is claimed; the API executes what it can; and PostgreSQL resolves every
\* deadlock.  A process may die at any time: no claim need be settled.
FairJobSpec ==
  /\ JobSpec
  /\ \A m \in Messages : WF_jobVars(\E w \in Workers : ClaimJob(w, m))
  /\ \A r \in Runs : WF_jobVars(CallNext(r))
  /\ WF_jobVars(\E r \in Runs : BreakDeadlock(r))

-----------------------------------------------------------------------------
JobTypeOK ==
  /\ TypeOK
  /\ job \in [Messages -> [status : JobStatus, attempts : 0..MaxAttempts,
                           lockedBy : Workers \cup {Nobody}]]
  /\ call \in [Runs -> [step : CallStep, worker : Workers \cup {Nobody}]]
  /\ \A m \in Messages : job[m].lockedBy # Nobody <=> job[m].status = "processing"

\* INSTAGRAM_INTEGRATION.md, automated agent processing: a job is completed after
\* its reply is stored, also when calls that lost their lease finish late.
CompletedIsTold ==
  \A m \in Messages : job[m].status = "completed" => reply[m] # "none"

\* A job is settled once: no call that lost its lease, and no claim, moves a job
\* that is completed or dead.
SettledOnce ==
  [][\A m \in Messages :
       job[m].status \in {"completed", "dead"} => job'[m] = job[m]]_jobVars

\* Every job ends: crashes, conflicts and failures use its attempts up.
EveryJobEnds ==
  \A m \in Messages :
    job[m].status # "none" ~> job[m].status \in {"completed", "dead"}
============================================================================
