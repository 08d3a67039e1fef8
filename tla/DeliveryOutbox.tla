---------------------------- MODULE DeliveryOutbox ----------------------------
(***************************************************************************)
(* The outbox of Instagram messages: jobs in a table, the workers that     *)
(* claim them, the provider that is called once for every claim.           *)
(* packages/db/drizzle/0022_instagram-delivery-outbox.sql,                 *)
(* apps/worker/src/instagram-delivery-worker.ts and                        *)
(* packages/integrations/src/instagram-delivery-policy.ts.                 *)
(*                                                                         *)
(* Claim, complete and fail are functions of the database, each one        *)
(* statement on one row: one step.  A worker is a process; it is started   *)
(* again, with the same id, when it fails.  Between its steps any time may *)
(* pass, so a lease may run out while its worker is still at work.  The    *)
(* n-th claim of a job is its attempt n, and a message the customer got is *)
(* named by the attempt that sent it.                                      *)
(***************************************************************************)
EXTENDS Naturals

CONSTANTS
  Jobs,         \* outbound messages of Instagram conversations
  Workers,      \* worker processes
  Names,        \* worker ids
  NameOf,       \* the id each process uses
  MaxAttempts,  \* max_attempts
  Nobody,       \* no worker id
  NoJob         \* no job

JobStatus == {"none", "pending", "processing", "delivered", "dead"}

Terminal == {"delivered", "dead"}

\* Where a worker is: "claimed" before and "calling" during the provider's call,
\* and then with what it has to report.
WorkerStep == {"idle", "claimed", "calling", "delivered", "retry", "dead"}

ASSUME OutboxAssumption ==
  /\ MaxAttempts \in 1..20
  /\ NameOf \in [Workers -> Names]
  /\ Nobody \notin Names
  /\ NoJob \notin Jobs

VARIABLES
  status,    \* instagram_delivery_jobs.status, "none" without a row
  attempts,  \* .attempts
  lockedBy,  \* .locked_by
  ready,     \* the jobs with available_at reached, or a lease past its time
  external,  \* .external_message_id, 0 for null
  audited,   \* the audit events written when a job ended
  worker,    \* where each worker is, with the job and the attempt it claimed
  open,      \* attempts the provider was asked for and may still act upon
  copies,    \* attempts whose message has reached the customer
  unclear    \* attempts that ended with no answer that tells

row == <<status, attempts, lockedBy, ready, external, audited>>
provider == <<open, copies>>
vars == <<row, worker, provider, unclear>>

Idle == [step |-> "idle", job |-> NoJob, attempt |-> 0]

Step(w, from, to) ==
  /\ worker[w].step = from
  /\ worker' = [worker EXCEPT ![w].step = to]

Unclear(j, n) == unclear' = [unclear EXCEPT ![j] = @ \cup {n}]

\* Only the worker id is compared, not the claim it was made with.
Owns(w) ==
  /\ status[worker[w].job] = "processing"
  /\ lockedBy[worker[w].job] = NameOf[w]

Init ==
  /\ status = [j \in Jobs |-> "none"]
  /\ attempts = [j \in Jobs |-> 0]
  /\ lockedBy = [j \in Jobs |-> Nobody]
  /\ ready = {}
  /\ external = [j \in Jobs |-> 0]
  /\ audited = [j \in Jobs |-> {}]
  /\ worker = [w \in Workers |-> Idle]
  /\ open = [j \in Jobs |-> {}]
  /\ copies = [j \in Jobs |-> {}]
  /\ unclear = [j \in Jobs |-> {}]

-----------------------------------------------------------------------------
(* The queue.                                                              *)

\* The trigger on messages: the job is stored with the message it sends.
Enqueue(j) ==
  /\ status[j] = "none"
  /\ status' = [status EXCEPT ![j] = "pending"]
  /\ ready' = ready \cup {j}
  /\ UNCHANGED <<attempts, lockedBy, external, audited, worker, provider, unclear>>

\* Time passes: available_at is reached, or the lease is five minutes old.
Elapse(j) ==
  /\ status[j] \in {"pending", "processing"}
  /\ j \notin ready
  /\ ready' = ready \cup {j}
  /\ IF status[j] = "processing" THEN Unclear(j, attempts[j]) ELSE UNCHANGED unclear
  /\ UNCHANGED <<status, attempts, lockedBy, external, audited, worker, provider>>

Claimable_IgnoresLease(j) ==
  \/ status[j] = "pending" /\ j \in ready
  \/ status[j] = "processing"

Claimable(j) == status[j] \in {"pending", "processing"} /\ j \in ready

ClaimRow(w, j) ==
  /\ status' = [status EXCEPT ![j] = "processing"]
  /\ attempts' = [attempts EXCEPT ![j] = @ + 1]
  /\ lockedBy' = [lockedBy EXCEPT ![j] = NameOf[w]]
  /\ worker' = [worker EXCEPT ![w] =
       [step |-> "claimed", job |-> j, attempt |-> attempts[j] + 1]]
  /\ UNCHANGED audited

\* The worker is told that the queue is empty.
ExhaustRow(j) ==
  /\ status' = [status EXCEPT ![j] = "dead"]
  /\ lockedBy' = [lockedBy EXCEPT ![j] = Nobody]
  /\ UNCHANGED <<attempts, audited, worker>>

Claim_Unbounded(w, j) ==
  /\ worker[w].step = "idle"
  /\ Claimable(j)
  /\ ClaimRow(w, j)
  /\ ready' = ready \ {j}
  /\ UNCHANGED <<external, provider, unclear>>

Claim_FreeOfCharge(w, j) ==
  /\ worker[w].step = "idle"
  /\ Claimable(j)
  /\ status' = [status EXCEPT ![j] = "processing"]
  /\ lockedBy' = [lockedBy EXCEPT ![j] = NameOf[w]]
  /\ worker' = [worker EXCEPT ![w] = [step |-> "claimed", job |-> j, attempt |-> attempts[j]]]
  /\ ready' = ready \ {j}
  /\ UNCHANGED <<attempts, audited, external, provider, unclear>>

\* SKIP LOCKED and the order by time leave open which of several jobs it is.
Claim(w, j) ==
  /\ worker[w].step = "idle"
  /\ Claimable(j)
  /\ IF attempts[j] < MaxAttempts THEN ClaimRow(w, j) ELSE ExhaustRow(j)
  /\ ready' = ready \ {j}
  /\ UNCHANGED <<external, provider, unclear>>

-----------------------------------------------------------------------------
(* A worker.                                                               *)

\* No active account, an unusable recipient, a token that cannot be decrypted.
CannotSend(w) ==
  /\ Step(w, "claimed", "dead")
  /\ UNCHANGED <<row, provider, unclear>>

Call(w) ==
  /\ Step(w, "claimed", "calling")
  /\ open' = [open EXCEPT ![worker[w].job] = @ \cup {worker[w].attempt}]
  /\ UNCHANGED <<row, copies, unclear>>

\* The provider sends the message, perhaps after the worker stopped waiting.
Accept(j, n) ==
  /\ n \in open[j]
  /\ open' = [open EXCEPT ![j] = @ \ {n}]
  /\ copies' = [copies EXCEPT ![j] = @ \cup {n}]
  /\ UNCHANGED <<row, worker, unclear>>

AnswerDelivered(w) ==
  /\ Step(w, "calling", "delivered")
  /\ worker[w].attempt \in copies[worker[w].job]
  /\ UNCHANGED <<row, provider, unclear>>

\* No retry for other 4xx, and none for a 200 with a body that is not understood.
AnswerPermanent(w) ==
  /\ Step(w, "calling", "dead")
  /\ open' = [open EXCEPT ![worker[w].job] = @ \ {worker[w].attempt}]
  /\ UNCHANGED <<row, copies, unclear>>

\* Timeout, network error, 408, 429, 5xx and the provider's transient codes.
AnswerTransient(w) ==
  /\ Step(w, "calling", IF worker[w].attempt < MaxAttempts THEN "retry" ELSE "dead")
  /\ Unclear(worker[w].job, worker[w].attempt)
  /\ UNCHANGED <<row, provider>>

Complete_Unowned(w) ==
  LET j == worker[w].job
  IN  /\ worker[w].step = "delivered"
      /\ worker' = [worker EXCEPT ![w] = Idle]
      /\ status' = [status EXCEPT ![j] = "delivered"]
      /\ lockedBy' = [lockedBy EXCEPT ![j] = Nobody]
      /\ ready' = ready \ {j}
      /\ external' = [external EXCEPT ![j] = worker[w].attempt]
      /\ audited' = [audited EXCEPT ![j] = @ \cup {"delivered"}]
      /\ UNCHANGED <<attempts, provider, unclear>>

\* app_complete_instagram_delivery_job; when it raises the worker goes on.
Complete(w) ==
  LET j == worker[w].job
  IN  /\ worker[w].step = "delivered"
      /\ worker' = [worker EXCEPT ![w] = Idle]
      /\ IF Owns(w)
         THEN /\ status' = [status EXCEPT ![j] = "delivered"]
              /\ lockedBy' = [lockedBy EXCEPT ![j] = Nobody]
              /\ ready' = ready \ {j}
              /\ external' = [external EXCEPT ![j] = worker[w].attempt]
              /\ audited' = [audited EXCEPT ![j] = @ \cup {"delivered"}]
         ELSE UNCHANGED <<status, lockedBy, ready, external, audited>>
      /\ UNCHANGED <<attempts, provider, unclear>>

Fail_StatusOnly(w) ==
  LET j == worker[w].job
      again == worker[w].step = "retry" /\ attempts[j] < MaxAttempts
  IN  /\ worker[w].step \in {"retry", "dead"}
      /\ worker' = [worker EXCEPT ![w] = Idle]
      /\ IF status[j] = "processing"
         THEN /\ status' = [status EXCEPT ![j] = IF again THEN "pending" ELSE "dead"]
              /\ lockedBy' = [lockedBy EXCEPT ![j] = Nobody]
              /\ ready' = ready \ {j}
              /\ audited' = [audited EXCEPT ![j] =
                   IF again THEN @ ELSE @ \cup {"dead_lettered"}]
         ELSE UNCHANGED <<status, lockedBy, ready, audited>>
      /\ UNCHANGED <<attempts, external, provider, unclear>>

\* app_fail_instagram_delivery_job.
Fail(w) ==
  LET j == worker[w].job
      again == worker[w].step = "retry" /\ attempts[j] < MaxAttempts
  IN  /\ worker[w].step \in {"retry", "dead"}
      /\ worker' = [worker EXCEPT ![w] = Idle]
      /\ IF Owns(w)
         THEN /\ status' = [status EXCEPT ![j] = IF again THEN "pending" ELSE "dead"]
              /\ lockedBy' = [lockedBy EXCEPT ![j] = Nobody]
              /\ ready' = ready \ {j}
              /\ audited' = [audited EXCEPT ![j] =
                   IF again THEN @ ELSE @ \cup {"dead_lettered"}]
         ELSE UNCHANGED <<status, lockedBy, ready, audited>>
      /\ UNCHANGED <<attempts, external, provider, unclear>>

\* The process, or a call it makes to the database, fails.
Crash(w) ==
  /\ worker[w].step # "idle"
  /\ worker' = [worker EXCEPT ![w] = Idle]
  /\ Unclear(worker[w].job, worker[w].attempt)
  /\ UNCHANGED <<row, provider>>

-----------------------------------------------------------------------------
WorkerNext(w) ==
  \/ \E j \in Jobs : Claim(w, j)
  \/ CannotSend(w)
  \/ Call(w)
  \/ AnswerDelivered(w)
  \/ AnswerPermanent(w)
  \/ AnswerTransient(w)
  \/ Complete(w)
  \/ Fail(w)

Next ==
  \/ \E j \in Jobs :
       \/ Enqueue(j)
       \/ Elapse(j)
       \/ \E n \in 1..MaxAttempts : Accept(j, n)
  \/ \E w \in Workers : WorkerNext(w) \/ Crash(w)

Spec == Init /\ [][Next]_vars

\* A worker goes on, after a crash too, and time passes.  Nothing is assumed of
\* the provider, and nothing stops the workers from crashing.
FairSpec ==
  /\ Spec
  /\ \A w \in Workers : WF_vars(WorkerNext(w))
  /\ \A j \in Jobs : WF_vars(Elapse(j))

-----------------------------------------------------------------------------
Attempt == 1..MaxAttempts

TypeOK ==
  /\ status \in [Jobs -> JobStatus]
  /\ attempts \in [Jobs -> 0..MaxAttempts]
  /\ lockedBy \in [Jobs -> Names \cup {Nobody}]
  /\ ready \in SUBSET Jobs
  /\ external \in [Jobs -> 0..MaxAttempts]
  /\ audited \in [Jobs -> SUBSET {"delivered", "dead_lettered"}]
  /\ worker \in [Workers -> [step : WorkerStep, job : Jobs \cup {NoJob},
                             attempt : 0..MaxAttempts]]
  /\ open \in [Jobs -> SUBSET Attempt]
  /\ copies \in [Jobs -> SUBSET Attempt]
  /\ unclear \in [Jobs -> SUBSET Attempt]

\* What the outbox says of a job that ended is true, and said once: a delivered
\* job names a message the customer got and is audited as delivered, nothing
\* that is not dead is audited as dead, and what is dead without an audit event
\* had used up its attempts.
OutcomeIsTrue ==
  \A j \in Jobs :
    /\ status[j] = "delivered" => external[j] \in copies[j]
    /\ "delivered" \in audited[j] <=> status[j] = "delivered"
    /\ "dead_lettered" \in audited[j] => status[j] = "dead"
    /\ status[j] = "dead" /\ audited[j] = {} => attempts[j] = MaxAttempts

\* A customer gets a message again only when an earlier attempt ended with no
\* answer that tells (timeout, transient error, crash, lease gone by): a message
\* that is known to have arrived is neither queued nor claimed again.
SentAgainOnlyIfUnclear ==
  \A j \in Jobs : \A n \in copies[j] :
    n \in unclear[j] \/ (n = attempts[j] /\ status[j] # "pending")

\* "Instagram delivery lease is no longer owned": a claim that has been taken
\* over settles nothing.  A job leaves "processing" by the report of the worker
\* with its latest claim, or because its attempts are used up.
SettledByItsClaim ==
  [][\A j \in Jobs :
       status[j] = "processing" /\ status'[j] # "processing" =>
         \/ status'[j] = "dead" /\ attempts[j] = MaxAttempts /\ j \in ready
         \/ \E w \in Workers :
              /\ worker[w].job = j
              /\ worker[w].attempt = attempts[j]
              /\ worker'[w] = Idle]_vars

\* INSTAGRAM_INTEGRATION.md, durable outbound delivery: dead-letter audit events
\* are written.
DeadLettersAudited == \A j \in Jobs : status[j] = "dead" => audited[j] = {"dead_lettered"}

\* Every message that is queued is delivered or given up, whatever crashes.
EveryJobEnds == \A j \in Jobs : status[j] = "pending" ~> status[j] \in Terminal
=============================================================================
