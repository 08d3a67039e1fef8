------------------------- MODULE DeliveryOutboxProofs -------------------------
(***************************************************************************)
(* Proofs about DeliveryOutbox, for any number of jobs, workers and        *)
(* attempts.  That reports speak for the truth holds for all worker ids;   *)
(* that they speak for the current claim, and that nothing is sent again   *)
(* without need, when the ids are distinct.                                *)
(***************************************************************************)
EXTENDS DeliveryOutbox, TLAPS

\* A worker at work has a job and an attempt of it that was made.
AtWork ==
  \A w \in Workers : worker[w].step # "idle" =>
    /\ worker[w].job \in Jobs
    /\ worker[w].attempt \in 1..attempts[worker[w].job]

\* What a worker is about to report is so.
ReportIsTrue ==
  \A w \in Workers : worker[w].step = "delivered" =>
    worker[w].attempt \in copies[worker[w].job]

ClaimsCounted == \A j \in Jobs : status[j] = "processing" => attempts[j] # 0

Inv == TypeOK /\ ClaimsCounted /\ AtWork /\ ReportIsTrue /\ OutcomeIsTrue

DistinctNames == \A v, w \in Workers : NameOf[v] = NameOf[w] => v = w

\* A job that was never claimed has no attempts; a lease past its time is unclear.
Rows ==
  \A j \in Jobs :
    /\ status[j] = "none" => attempts[j] = 0
    /\ status[j] = "processing" /\ j \in ready => attempts[j] \in unclear[j]

\* No two workers have the same claim, and the worker whose id is on the row has
\* the latest one.
OneWorkerPerClaim ==
  \A v, w \in Workers :
    /\ worker[v].step # "idle" /\ worker[w].step # "idle"
    /\ worker[v].job = worker[w].job
    /\ worker[v].attempt = worker[w].attempt
    => v = w

OwnerIsCurrent ==
  \A w \in Workers : worker[w].step # "idle" /\ Owns(w) =>
    worker[w].attempt = attempts[worker[w].job]

\* A worker at work has the current claim, of a job that is not queued, or its
\* lease went by; one that asks for a retry has no answer that tells.
OvertakenIsUnclear ==
  \A w \in Workers : worker[w].step # "idle" =>
    LET j == worker[w].job
        n == worker[w].attempt
    IN  /\ n \in unclear[j] \/ (n = attempts[j] /\ status[j] # "pending")
        /\ worker[w].step = "retry" => n \in unclear[j]
        /\ n = attempts[j] => status[j] \in {"processing", "dead"}

\* SentAgainOnlyIfUnclear, and the same of the calls that may still arrive.
CalledAgainOnlyIfUnclear ==
  \A j \in Jobs : \A n \in open[j] \cup copies[j] :
    n \in unclear[j] \/ (n = attempts[j] /\ status[j] # "pending")

ClaimInv ==
  Rows /\ OneWorkerPerClaim /\ OwnerIsCurrent /\ OvertakenIsUnclear
       /\ CalledAgainOnlyIfUnclear

-----------------------------------------------------------------------------
(* What holds whatever the worker ids are.                                 *)

LEMMA InitInv == Init => Inv
BY OutboxAssumption DEF Init, Inv, TypeOK, AtWork, ReportIsTrue, OutcomeIsTrue, JobStatus,
   WorkerStep, Idle, Attempt, ClaimsCounted

LEMMA NextInv == Inv /\ [Next]_vars => Inv'
<1> SUFFICES ASSUME Inv, [Next]_vars
             PROVE  Inv'
  OBVIOUS
<1> USE OutboxAssumption
<1> USE DEF Inv, TypeOK, JobStatus, WorkerStep, Attempt, Idle, row, provider, ClaimsCounted
<1>1. ASSUME NEW j \in Jobs, Enqueue(j)
      PROVE  Inv'
  BY <1>1 DEF Enqueue, AtWork, ReportIsTrue, OutcomeIsTrue
<1>2. ASSUME NEW j \in Jobs, Elapse(j)
      PROVE  Inv'
  <2>1. status[j] = "processing" => attempts[j] \in Attempt
    BY DEF ClaimsCounted
  <2> QED
    BY <1>2, <2>1 DEF Elapse, Unclear, AtWork, ReportIsTrue, OutcomeIsTrue
<1>3. ASSUME NEW j \in Jobs, NEW n \in 1..MaxAttempts, Accept(j, n)
      PROVE  Inv'
  BY <1>3 DEF Accept, AtWork, ReportIsTrue, OutcomeIsTrue
<1>4. ASSUME NEW w \in Workers, NEW j \in Jobs, Claim(w, j), attempts[j] < MaxAttempts
      PROVE  Inv'
  <2>1. TypeOK'
    <3>1. status' \in [Jobs -> JobStatus]
      BY <1>4 DEF Claim, ClaimRow, Claimable, AtWork
    <3>2. attempts' \in [Jobs -> 0..MaxAttempts]
      BY <1>4 DEF Claim, ClaimRow, Claimable, AtWork
    <3>3. lockedBy' \in [Jobs -> Names \cup {Nobody}]
      BY <1>4 DEF Claim, ClaimRow, Claimable, AtWork
    <3>4. ready' \in SUBSET Jobs
      BY <1>4 DEF Claim, ClaimRow, Claimable, AtWork
    <3>5. external' \in [Jobs -> 0..MaxAttempts]
      BY <1>4 DEF Claim, ClaimRow, Claimable, AtWork
    <3>6. audited' \in [Jobs -> SUBSET {"delivered", "dead_lettered"}]
      BY <1>4 DEF Claim, ClaimRow, Claimable, AtWork
    <3>7. worker' \in [Workers -> [step : WorkerStep, job : Jobs \cup {NoJob},
                                   attempt : 0..MaxAttempts]]
      BY <1>4 DEF Claim, ClaimRow, Claimable, AtWork
    <3> QED
      BY <1>4, <3>1, <3>2, <3>3, <3>4, <3>5, <3>6, <3>7 DEF Claim, ClaimRow, Claimable, AtWork
  <2>2. ClaimsCounted'
    BY <1>4 DEF Claim, ClaimRow, Claimable
  <2>3. AtWork'
    <3> SUFFICES ASSUME NEW v \in Workers, worker'[v].step # "idle"
                 PROVE  /\ worker'[v].job \in Jobs
                        /\ worker'[v].attempt \in 1..attempts'[worker'[v].job]
      BY DEF AtWork
    <3>1. CASE v = w
      BY <1>4, <3>1 DEF Claim, ClaimRow, Claimable
    <3>2. CASE v # w
      <4>1. worker'[v] = worker[v] /\ worker[v].job \in Jobs
        BY <1>4, <3>2 DEF Claim, ClaimRow, AtWork
      <4>2. CASE worker[v].job = j
        BY <1>4, <4>1, <4>2 DEF Claim, ClaimRow, AtWork
      <4>3. CASE worker[v].job # j
        BY <1>4, <4>1, <4>3 DEF Claim, ClaimRow, AtWork
      <4> QED
        BY <4>2, <4>3
    <3> QED
      BY <3>1, <3>2
  <2>4. ReportIsTrue'
    BY <1>4 DEF Claim, ClaimRow, Claimable, AtWork, ReportIsTrue
  <2>5. OutcomeIsTrue'
    BY <1>4 DEF Claim, ClaimRow, Claimable, AtWork, ReportIsTrue, OutcomeIsTrue
  <2> QED
    BY <2>1, <2>2, <2>3, <2>4, <2>5
<1>5. ASSUME NEW w \in Workers, NEW j \in Jobs, Claim(w, j), ~(attempts[j] < MaxAttempts)
      PROVE  Inv'
  <2>1. /\ status' = [status EXCEPT ![j] = "dead"]
        /\ lockedBy' = [lockedBy EXCEPT ![j] = Nobody]
        /\ ready' = ready \ {j}
        /\ UNCHANGED <<attempts, audited, external, worker, open, copies, unclear>>
    BY <1>5 DEF Claim, ExhaustRow
  <2>2. TypeOK' /\ ClaimsCounted'
    BY <2>1
  <2>3. AtWork' /\ ReportIsTrue'
    BY <2>1 DEF AtWork, ReportIsTrue
  <2>4. attempts[j] = MaxAttempts /\ status[j] \notin Terminal
    BY <1>5 DEF Claim, Claimable, Terminal
  <2>5. OutcomeIsTrue'
    BY <2>1, <2>4 DEF OutcomeIsTrue, Terminal
  <2> QED
    BY <2>2, <2>3, <2>5
<1>6. ASSUME NEW w \in Workers, CannotSend(w)
      PROVE  Inv'
  BY <1>6 DEF CannotSend, Step, AtWork, ReportIsTrue, OutcomeIsTrue
<1>7. ASSUME NEW w \in Workers, Call(w)
      PROVE  Inv'
  BY <1>7 DEF Call, Step, AtWork, ReportIsTrue, OutcomeIsTrue
<1>8. ASSUME NEW w \in Workers, AnswerDelivered(w)
      PROVE  Inv'
  BY <1>8 DEF AnswerDelivered, Step, AtWork, ReportIsTrue, OutcomeIsTrue
<1>9. ASSUME NEW w \in Workers, AnswerPermanent(w)
      PROVE  Inv'
  BY <1>9 DEF AnswerPermanent, Step, AtWork, ReportIsTrue, OutcomeIsTrue
<1>10. ASSUME NEW w \in Workers, AnswerTransient(w)
       PROVE  Inv'
  <2>1. TypeOK'
    BY <1>10 DEF AnswerTransient, Step, Unclear, AtWork
  <2>2. ClaimsCounted'
    BY <1>10 DEF AnswerTransient, Step, Unclear
  <2>3. AtWork'
    BY <1>10 DEF AnswerTransient, Step, Unclear, AtWork
  <2>4. ReportIsTrue'
    BY <1>10 DEF AnswerTransient, Step, Unclear, AtWork, ReportIsTrue
  <2>5. OutcomeIsTrue'
    BY <1>10 DEF AnswerTransient, Step, Unclear, AtWork, ReportIsTrue, OutcomeIsTrue
  <2> QED
    BY <2>1, <2>2, <2>3, <2>4, <2>5
<1>11. ASSUME NEW w \in Workers, Complete(w)
       PROVE  Inv'
  <2>1. TypeOK'
    <3>1. status' \in [Jobs -> JobStatus]
      BY <1>11 DEF Complete, Owns, AtWork
    <3>2. attempts' \in [Jobs -> 0..MaxAttempts]
      BY <1>11 DEF Complete, Owns, AtWork
    <3>3. lockedBy' \in [Jobs -> Names \cup {Nobody}]
      BY <1>11 DEF Complete, Owns, AtWork
    <3>4. ready' \in SUBSET Jobs
      BY <1>11 DEF Complete, Owns, AtWork
    <3>5. external' \in [Jobs -> 0..MaxAttempts]
      BY <1>11 DEF Complete, Owns, AtWork
    <3>6. audited' \in [Jobs -> SUBSET {"delivered", "dead_lettered"}]
      BY <1>11 DEF Complete, Owns, AtWork
    <3>7. worker' \in [Workers -> [step : WorkerStep, job : Jobs \cup {NoJob},
                                   attempt : 0..MaxAttempts]]
      BY <1>11 DEF Complete, Owns, AtWork
    <3> QED
      BY <1>11, <3>1, <3>2, <3>3, <3>4, <3>5, <3>6, <3>7 DEF Complete, Owns, AtWork
  <2>2. ClaimsCounted'
    BY <1>11 DEF Complete, Owns
  <2>3. AtWork'
    BY <1>11 DEF Complete, Owns, AtWork
  <2>4. ReportIsTrue'
    BY <1>11 DEF Complete, Owns, AtWork, ReportIsTrue
  <2>5. OutcomeIsTrue'
    BY <1>11 DEF Complete, Owns, AtWork, ReportIsTrue, OutcomeIsTrue
  <2> QED
    BY <2>1, <2>2, <2>3, <2>4, <2>5
<1>12. ASSUME NEW w \in Workers, Fail(w)
       PROVE  Inv'
  <2>1. TypeOK'
    <3>1. status' \in [Jobs -> JobStatus]
      BY <1>12 DEF Fail, Owns, AtWork
    <3>2. attempts' \in [Jobs -> 0..MaxAttempts]
      BY <1>12 DEF Fail, Owns, AtWork
    <3>3. lockedBy' \in [Jobs -> Names \cup {Nobody}]
      BY <1>12 DEF Fail, Owns, AtWork
    <3>4. ready' \in SUBSET Jobs
      BY <1>12 DEF Fail, Owns, AtWork
    <3>5. external' \in [Jobs -> 0..MaxAttempts]
      BY <1>12 DEF Fail, Owns, AtWork
    <3>6. audited' \in [Jobs -> SUBSET {"delivered", "dead_lettered"}]
      <4>1. ASSUME NEW j \in Jobs, NEW event \in {"delivered", "dead_lettered"}
            PROVE  [audited EXCEPT ![j] = @ \cup {event}]
                     \in [Jobs -> SUBSET {"delivered", "dead_lettered"}]
        OBVIOUS
      <4>2. \/ audited' = audited
            \/ audited' = [audited EXCEPT ![worker[w].job] = @]
            \/ audited' = [audited EXCEPT ![worker[w].job] = @ \cup {"dead_lettered"}]
        BY <1>12 DEF Fail
      <4>3. worker[w].job \in Jobs
        BY <1>12 DEF Fail, AtWork
      <4> QED
        BY <4>1, <4>2, <4>3
    <3>7. worker' \in [Workers -> [step : WorkerStep, job : Jobs \cup {NoJob},
                                   attempt : 0..MaxAttempts]]
      BY <1>12 DEF Fail, Owns, AtWork
    <3> QED
      BY <1>12, <3>1, <3>2, <3>3, <3>4, <3>5, <3>6, <3>7 DEF Fail, Owns, AtWork
  <2>2. ClaimsCounted'
    BY <1>12 DEF Fail, Owns
  <2>3. AtWork'
    BY <1>12 DEF Fail, Owns, AtWork
  <2>4. ReportIsTrue'
    BY <1>12 DEF Fail, Owns, AtWork, ReportIsTrue
  <2>5. OutcomeIsTrue'
    <3>1. CASE Owns(w)
      <4>1. status[worker[w].job] = "processing" /\ worker[w].job \in Jobs
        BY <1>12, <3>1 DEF Fail, Owns, AtWork
      <4>2. audited[worker[w].job] = {}
        BY <4>1 DEF OutcomeIsTrue
      <4> DEFINE j == worker[w].job
                 again == worker[w].step = "retry" /\ attempts[j] < MaxAttempts
      <4>3. status'[j] = IF again THEN "pending" ELSE "dead"
        BY <1>12, <3>1, <4>1 DEF Fail
      <4>4. audited'[j] = IF again THEN {} ELSE {"dead_lettered"}
        BY <1>12, <3>1, <4>1, <4>2 DEF Fail
      <4>5. \A i \in Jobs \ {j} : status'[i] = status[i] /\ audited'[i] = audited[i]
        BY <1>12, <3>1, <4>1 DEF Fail
      <4>6. UNCHANGED <<attempts, external, copies>>
        BY <1>12 DEF Fail
      <4> SUFFICES ASSUME NEW i \in Jobs
                   PROVE  /\ status'[i] = "delivered" => external'[i] \in copies'[i]
                          /\ "delivered" \in audited'[i] <=> status'[i] = "delivered"
                          /\ "dead_lettered" \in audited'[i] => status'[i] = "dead"
                          /\ status'[i] = "dead" /\ audited'[i] = {} =>
                               attempts'[i] = MaxAttempts
        BY DEF OutcomeIsTrue
      <4>7. CASE i = j
        <5> HIDE DEF again, j, Inv
        <5>1. CASE again
          <6>1. status'[i] = "pending" /\ audited'[i] = {}
            BY <4>3, <4>4, <4>7, <5>1
          <6> QED
            BY <6>1
        <5>2. CASE ~again
          <6>1. status'[i] = "dead" /\ audited'[i] = {"dead_lettered"}
            BY <4>3, <4>4, <4>7, <5>2
          <6>2. {"dead_lettered"} # {} /\ "delivered" \notin {"dead_lettered"}
            OBVIOUS
          <6> QED
            BY <6>1, <6>2
        <5> QED
          BY <5>1, <5>2
      <4>8. CASE i # j
        <5>1. status'[i] = status[i] /\ audited'[i] = audited[i]
          BY <4>5, <4>8
        <5> QED
          BY <4>6, <5>1 DEF OutcomeIsTrue
      <4> QED
        BY <4>7, <4>8
    <3>2. CASE ~Owns(w)
      BY <1>12, <3>2 DEF Fail, OutcomeIsTrue
    <3> QED
      BY <3>1, <3>2
  <2> QED
    BY <2>1, <2>2, <2>3, <2>4, <2>5
<1>13. ASSUME NEW w \in Workers, Crash(w)
       PROVE  Inv'
  BY <1>13 DEF Crash, Unclear, AtWork, ReportIsTrue, OutcomeIsTrue
<1>14. CASE UNCHANGED vars
  BY <1>14 DEF vars, AtWork, ReportIsTrue, OutcomeIsTrue
<1> QED
  BY <1>1, <1>2, <1>3, <1>4, <1>5, <1>6, <1>7, <1>8, <1>9, <1>10, <1>11, <1>12, <1>13, <1>14
     DEF Next, WorkerNext

LEMMA InvHolds == Spec => []Inv
BY InitInv, NextInv, PTL DEF Spec

\* Every field of the outbox, of the workers and of the provider keeps its type.
THEOREM TypeCorrect == Spec => []TypeOK
BY InvHolds, PTL DEF Inv

\* The outcome that is recorded of a delivery is true: an external id that was
\* recorded is that of a message the customer got.
THEOREM OutcomeIsTrueInvariant == Spec => []OutcomeIsTrue
BY InvHolds, PTL DEF Inv

-----------------------------------------------------------------------------
(* What holds when no two workers share an id.                             *)

LEMMA InitClaimInv == Init => ClaimInv
BY OutboxAssumption DEF Init, ClaimInv, Rows, OneWorkerPerClaim, OwnerIsCurrent,
   OvertakenIsUnclear, CalledAgainOnlyIfUnclear, Idle, Owns

LEMMA NextClaimInv ==
  ASSUME DistinctNames, Inv, ClaimInv, [Next]_vars
  PROVE  ClaimInv'
<1> USE OutboxAssumption
<1> USE DEF Inv, TypeOK, ClaimInv, row, provider, Idle
<1>1. ASSUME NEW j \in Jobs, Enqueue(j)
      PROVE  ClaimInv'
  <2>1. attempts[j] = 0 /\ status[j] = "none"
    BY <1>1 DEF Enqueue, Rows
  <2>2. \A w \in Workers : worker[w].step # "idle" => worker[w].job # j
    BY <2>1 DEF AtWork
  <2>3. Rows' /\ OneWorkerPerClaim' /\ OwnerIsCurrent'
    BY <1>1, <2>1, <2>2 DEF Enqueue, Rows, OneWorkerPerClaim, OwnerIsCurrent, Owns, AtWork
  <2>4. OvertakenIsUnclear'
    BY <1>1, <2>1, <2>2 DEF Enqueue, OvertakenIsUnclear, AtWork
  <2>5. \A n \in open[j] \cup copies[j] : n \in unclear[j]
    BY <2>1 DEF CalledAgainOnlyIfUnclear, Attempt
  <2>6. CalledAgainOnlyIfUnclear'
    BY <1>1, <2>5 DEF Enqueue, CalledAgainOnlyIfUnclear
  <2> QED
    BY <2>3, <2>4, <2>6
<1>2. ASSUME NEW j \in Jobs, Elapse(j)
      PROVE  ClaimInv'
  BY <1>2 DEF Elapse, Unclear, AtWork, Rows, OneWorkerPerClaim, OwnerIsCurrent, Owns,
     OvertakenIsUnclear, CalledAgainOnlyIfUnclear
<1>3. ASSUME NEW j \in Jobs, NEW n \in 1..MaxAttempts, Accept(j, n)
      PROVE  ClaimInv'
  BY <1>3 DEF Accept, AtWork, Rows, OneWorkerPerClaim, OwnerIsCurrent, Owns,
     OvertakenIsUnclear, CalledAgainOnlyIfUnclear
<1>4. ASSUME NEW w \in Workers, NEW j \in Jobs, Claim(w, j), attempts[j] < MaxAttempts
      PROVE  ClaimInv'
  <2>1. /\ status' = [status EXCEPT ![j] = "processing"]
        /\ attempts' = [attempts EXCEPT ![j] = @ + 1]
        /\ lockedBy' = [lockedBy EXCEPT ![j] = NameOf[w]]
        /\ worker' = [worker EXCEPT ![w] =
             [step |-> "claimed", job |-> j, attempt |-> attempts[j] + 1]]
        /\ ready' = ready \ {j}
        /\ UNCHANGED <<open, copies, unclear>>
    BY <1>4 DEF Claim, ClaimRow
  <2>2. status[j] = "pending" \/ attempts[j] \in unclear[j]
    BY <1>4 DEF Claim, Claimable, Rows
  <2>3. \A v \in Workers : worker[v].step # "idle" /\ worker[v].job = j =>
          worker[v].attempt \in unclear[j] /\ worker[v].attempt < attempts[j] + 1
    BY <2>2 DEF AtWork, OvertakenIsUnclear
  <2>4. \A v \in Workers \ {w} : worker'[v] = worker[v]
    BY <2>1
  <2>5. Rows'
    BY <2>1 DEF Rows
  <2>6. OneWorkerPerClaim'
    BY <2>1, <2>3, <2>4 DEF OneWorkerPerClaim
  <2>7. OwnerIsCurrent'
    <3> SUFFICES ASSUME NEW v \in Workers, worker'[v].step # "idle", Owns(v)'
                 PROVE  worker'[v].attempt = attempts'[worker'[v].job]
      BY DEF OwnerIsCurrent
    <3>1. CASE v = w
      BY <2>1, <3>1
    <3>2. CASE v # w
      BY <2>1, <2>4, <3>2 DEF OwnerIsCurrent, Owns, DistinctNames, AtWork
    <3> QED
      BY <3>1, <3>2
  <2>8. OvertakenIsUnclear'
    <3> SUFFICES ASSUME NEW v \in Workers, worker'[v].step # "idle"
                 PROVE  LET i == worker'[v].job
                            n == worker'[v].attempt
                        IN  /\ n \in unclear'[i] \/ (n = attempts'[i] /\ status'[i] # "pending")
                            /\ worker'[v].step = "retry" => n \in unclear'[i]
                            /\ n = attempts'[i] => status'[i] \in {"processing", "dead"}
      BY DEF OvertakenIsUnclear
    <3>1. CASE v = w
      BY <2>1, <3>1
    <3>2. CASE v # w
      BY <2>1, <2>3, <2>4, <3>2 DEF OvertakenIsUnclear, AtWork
    <3> QED
      BY <3>1, <3>2
  <2>9. CalledAgainOnlyIfUnclear'
    BY <2>1, <2>2 DEF CalledAgainOnlyIfUnclear
  <2> QED
    BY <2>5, <2>6, <2>7, <2>8, <2>9
<1>5. ASSUME NEW w \in Workers, NEW j \in Jobs, Claim(w, j), ~(attempts[j] < MaxAttempts)
      PROVE  ClaimInv'
  BY <1>5 DEF Claim, ExhaustRow, Claimable, AtWork, Rows, OneWorkerPerClaim,
     OwnerIsCurrent, Owns, OvertakenIsUnclear, CalledAgainOnlyIfUnclear
<1>6. ASSUME NEW w \in Workers, CannotSend(w)
      PROVE  ClaimInv'
  BY <1>6 DEF CannotSend, Step, AtWork, Rows, OneWorkerPerClaim, OwnerIsCurrent, Owns,
     OvertakenIsUnclear, CalledAgainOnlyIfUnclear
<1>7. ASSUME NEW w \in Workers, Call(w)
      PROVE  ClaimInv'
  BY <1>7 DEF Call, Step, AtWork, Rows, OneWorkerPerClaim, OwnerIsCurrent, Owns,
     OvertakenIsUnclear, CalledAgainOnlyIfUnclear
<1>8. ASSUME NEW w \in Workers, AnswerDelivered(w)
      PROVE  ClaimInv'
  BY <1>8 DEF AnswerDelivered, Step, AtWork, Rows, OneWorkerPerClaim, OwnerIsCurrent, Owns,
     OvertakenIsUnclear, CalledAgainOnlyIfUnclear
<1>9. ASSUME NEW w \in Workers, AnswerPermanent(w)
      PROVE  ClaimInv'
  BY <1>9 DEF AnswerPermanent, Step, AtWork, Rows, OneWorkerPerClaim, OwnerIsCurrent, Owns,
     OvertakenIsUnclear, CalledAgainOnlyIfUnclear
<1>10. ASSUME NEW w \in Workers, AnswerTransient(w)
       PROVE  ClaimInv'
  BY <1>10 DEF AnswerTransient, Step, Unclear, AtWork, Rows, OneWorkerPerClaim,
     OwnerIsCurrent, Owns, OvertakenIsUnclear, CalledAgainOnlyIfUnclear
<1>11. ASSUME NEW w \in Workers, Complete(w)
       PROVE  ClaimInv'
  BY <1>11 DEF Complete, AtWork, Rows, OneWorkerPerClaim, OwnerIsCurrent, Owns,
     OvertakenIsUnclear, CalledAgainOnlyIfUnclear
<1>12. ASSUME NEW w \in Workers, Fail(w)
       PROVE  ClaimInv'
  BY <1>12 DEF Fail, AtWork, Rows, OneWorkerPerClaim, OwnerIsCurrent, Owns,
     OvertakenIsUnclear, CalledAgainOnlyIfUnclear
<1>13. ASSUME NEW w \in Workers, Crash(w)
       PROVE  ClaimInv'
  BY <1>13 DEF Crash, Unclear, AtWork, Rows, OneWorkerPerClaim, OwnerIsCurrent, Owns,
     OvertakenIsUnclear, CalledAgainOnlyIfUnclear
<1>14. CASE UNCHANGED vars
  BY <1>14 DEF vars, Rows, OneWorkerPerClaim, OwnerIsCurrent, Owns,
     OvertakenIsUnclear, CalledAgainOnlyIfUnclear
<1> QED
  BY <1>1, <1>2, <1>3, <1>4, <1>5, <1>6, <1>7, <1>8, <1>9, <1>10, <1>11, <1>12, <1>13, <1>14
     DEF Next, WorkerNext

LEMMA ClaimInvHolds ==
  ASSUME DistinctNames
  PROVE  Spec => []ClaimInv
<1>1. Inv /\ ClaimInv /\ [Next]_vars => ClaimInv'
  BY NextClaimInv
<1> QED
  BY InitClaimInv, InvHolds, <1>1, PTL DEF Spec

\* With distinct worker ids a customer gets a message again only when an earlier
\* attempt ended with no answer that tells.
THEOREM SentAgainOnlyIfUnclearInvariant ==
  ASSUME DistinctNames
  PROVE  Spec => []SentAgainOnlyIfUnclear
<1>1. ClaimInv => SentAgainOnlyIfUnclear
  BY DEF ClaimInv, CalledAgainOnlyIfUnclear, SentAgainOnlyIfUnclear
<1> QED
  BY <1>1, ClaimInvHolds, PTL

\* With distinct worker ids only the latest claim of a job settles it.
THEOREM SettledByItsClaimAlways ==
  ASSUME DistinctNames
  PROVE  Spec => SettledByItsClaim
<1> DEFINE Settled ==
      \A j \in Jobs :
        status[j] = "processing" /\ status'[j] # "processing" =>
          \/ status'[j] = "dead" /\ attempts[j] = MaxAttempts /\ j \in ready
          \/ \E w \in Workers :
               /\ worker[w].job = j
               /\ worker[w].attempt = attempts[j]
               /\ worker'[w] = Idle
<1>1. Inv /\ ClaimInv /\ [Next]_vars => [Settled]_vars
  <2> SUFFICES ASSUME Inv, ClaimInv, Next,
                      NEW j \in Jobs, status[j] = "processing", status'[j] # "processing"
               PROVE  \/ status'[j] = "dead" /\ attempts[j] = MaxAttempts /\ j \in ready
                      \/ \E w \in Workers :
                           /\ worker[w].job = j
                           /\ worker[w].attempt = attempts[j]
                           /\ worker'[w] = Idle
    OBVIOUS
  <2> USE DEF Inv, TypeOK
  <2>1. ASSUME NEW w \in Workers, Complete(w)
        PROVE  worker[w].job = j /\ worker[w].attempt = attempts[j] /\ worker'[w] = Idle
    BY <2>1 DEF Complete, ClaimInv, OwnerIsCurrent, AtWork
  <2>2. ASSUME NEW w \in Workers, Fail(w)
        PROVE  worker[w].job = j /\ worker[w].attempt = attempts[j] /\ worker'[w] = Idle
    BY <2>2 DEF Fail, ClaimInv, OwnerIsCurrent, AtWork
  <2>3. ASSUME NEW w \in Workers, NEW i \in Jobs, Claim(w, i)
        PROVE  status'[j] = "dead" /\ attempts[j] = MaxAttempts /\ j \in ready
    BY <2>3, OutboxAssumption DEF Claim, Claimable, ClaimRow, ExhaustRow
  <2>4. status' # status
    OBVIOUS
  <2> QED
    BY <2>1, <2>2, <2>3, <2>4
       DEF Next, WorkerNext, Enqueue, Elapse, Accept, CannotSend, Call, AnswerDelivered,
           AnswerPermanent, AnswerTransient, Crash, row
<1> QED
  BY <1>1, InvHolds, ClaimInvHolds, PTL DEF Spec, SettledByItsClaim
=============================================================================
