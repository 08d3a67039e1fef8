------------------------- MODULE StockTransactions -------------------------
(***************************************************************************)
(* The stock commands of packages/db/src/inventory-commands.ts and         *)
(* order-commands.ts as PostgreSQL runs them: each request in a            *)
(* transaction of its own at READ COMMITTED, a statement at a time, with   *)
(* the statements of other requests in between.                            *)
(*                                                                         *)
(* A request takes the advisory lock on its idempotency key, looks for an  *)
(* earlier commit under that key, locks the draft or order row if it is an *)
(* order command, and then works through its lines: it locks the           *)
(* reservation row when it settles one, locks the balance row, and writes  *)
(* the balance it computed from the one it read.  The writes are seen by   *)
(* others when it commits, and all locks are held until it ends.  Rows are *)
(* written with absolute values, so that a balance read without its lock   *)
(* would be a lost update.                                                 *)
(*                                                                         *)
(* Requests may be sent again at any time with the same key, concurrently  *)
(* too; a request may die at any statement.  Two requests that wait for    *)
(* each other are found by the deadlock detector, which ends one of them.  *)
(* The advisory locks on the keys derived for the lines of an order        *)
(* command are left out: only the holder of the command's key asks for     *)
(* them.                                                                   *)
(***************************************************************************)
EXTENDS StockCommands

CONSTANTS
  Handlers,  \* database connections that run requests
  Nobody,    \* owner of a free lock
  NoKey,     \* null key
  NoWrite    \* null balance

ASSUME StockTransactionsAssumption ==
  /\ Nobody \notin Handlers
  /\ NoWrite \notin Balance

VARIABLES
  balance, hold, phase, applied,  \* committed rows, see StockContract
  owner,                          \* who holds each lock
  handler                         \* what each connection is doing

\* The contract's rows are the committed ones.
Contract == INSTANCE StockContract WITH
  balance <- balance, hold <- hold, phase <- phase, applied <- applied

committed == <<balance, hold, phase, applied>>

vars == <<committed, owner, handler>>

-----------------------------------------------------------------------------
Locks ==
  ({"key"} \X Keys) \cup ({"draft", "order"} \X Orders)
    \cup ({"reservation"} \X Orders \X Targets) \cup ({"balance"} \X Targets)

Steps == {"idle", "key", "replay", "head", "reservation", "balance", "commit"}

Idle == [key |-> NoKey, step |-> "idle", at |-> 1,
         buffer |-> [t \in Targets |-> NoWrite]]

Running(h) == handler[h].step # "idle"

WorkOf(h) == Work[handler[h].key]

CurrentLine(h) == Lines(handler[h].key)[handler[h].at]

\* The step a request goes to for each of its lines.
LineStep(k) == IF Settles(k) THEN "reservation" ELSE "balance"

\* The lock the next statement of a request asks for.
Wants(h) ==
  CASE handler[h].step = "key" -> <<"key", handler[h].key>>
    [] handler[h].step = "head" ->
         <<IF WorkOf(h).kind = "confirm" THEN "draft" ELSE "order", WorkOf(h).order>>
    [] handler[h].step = "reservation" ->
         <<"reservation", WorkOf(h).order, CurrentLine(h).target>>
    [] handler[h].step = "balance" -> <<"balance", CurrentLine(h).target>>

AsksForLock(h) == handler[h].step \in {"key", "head", "reservation", "balance"}

Waiting(h) == AsksForLock(h) /\ owner[Wants(h)] # Nobody

\* Requests that wait for each other in a circle.
Deadlocked(h) ==
  \E S \in SUBSET Handlers :
    /\ h \in S
    /\ \A g \in S : Waiting(g)
    /\ {owner[Wants(g)] : g \in S} = S

-----------------------------------------------------------------------------
Init ==
  /\ Contract!Init
  /\ owner = [l \in Locks |-> Nobody]
  /\ handler = [h \in Handlers |-> Idle]

\* pg_advisory_lock for pg_advisory_xact_lock.
End_SessionLocks(h) ==
  /\ owner' = [l \in Locks |-> IF owner[l] = h /\ l[1] # "key" THEN Nobody ELSE owner[l]]
  /\ handler' = [handler EXCEPT ![h] = Idle]

\* The end of a transaction frees its locks and its connection.
End(h) ==
  /\ owner' = [l \in Locks |-> IF owner[l] = h THEN Nobody ELSE owner[l]]
  /\ handler' = [handler EXCEPT ![h] = Idle]

Rollback(h) == End(h) /\ UNCHANGED committed

\* withTenantTransaction opens a transaction for a request.
Begin(h, k) ==
  /\ ~Running(h)
  /\ handler' = [handler EXCEPT ![h].key = k, ![h].step = "key"]
  /\ UNCHANGED <<committed, owner>>

\* A statement that locks: it waits for the lock, and then it either goes on
\* under the lock or finds something that makes the command fail.
Lock_NoWait(h, ok, state) ==
  /\ IF ok
     THEN /\ owner' = [owner EXCEPT ![Wants(h)] = h]
          /\ handler' = [handler EXCEPT ![h] = state]
     ELSE End(h)
  /\ UNCHANGED committed

Lock(h, ok, state) ==
  /\ owner[Wants(h)] = Nobody
  /\ IF ok
     THEN /\ owner' = [owner EXCEPT ![Wants(h)] = h]
          /\ handler' = [handler EXCEPT ![h] = state]
     ELSE End(h)
  /\ UNCHANGED committed

\* acquireIdempotencyLock, acquireCommandLock.
TakeKeyLock(h) ==
  /\ handler[h].step = "key"
  /\ Lock(h, TRUE, [handler[h] EXCEPT !.step = "replay"])

\* replayIfPresent: a command that has committed already is answered from what
\* it left, and the transaction ends without a write.
CheckReplay_AppliesAgain(h) ==
  /\ handler[h].step = "replay"
  /\ handler' = [handler EXCEPT ![h].step =
       IF IsOrderCommand(handler[h].key) THEN "head" ELSE LineStep(handler[h].key)]
  /\ UNCHANGED <<committed, owner>>

CheckReplay(h) ==
  LET k == handler[h].key
  IN  /\ handler[h].step = "replay"
      /\ IF k \in applied THEN End(h)
         ELSE /\ handler' = [handler EXCEPT ![h].step =
                   IF IsOrderCommand(k) THEN "head" ELSE LineStep(k)]
              /\ UNCHANGED owner
      /\ UNCHANGED committed

\* select ... from draft_orders / orders ... for update, and the status check.
TakeHeadLock(h) ==
  /\ handler[h].step = "head"
  /\ Lock(h, Contract!PhaseAllows(handler[h].key),
          [handler[h] EXCEPT !.step = LineStep(handler[h].key)])

\* loadReservation(..., true), and the status check.
TakeReservationLock(h) ==
  /\ handler[h].step = "reservation"
  /\ Lock(h, hold[WorkOf(h).order][CurrentLine(h).target] = "active",
          [handler[h] EXCEPT !.step = "balance"])

\* lockBalance, the stock checks, and updateBalance into the buffer.
TakeBalanceLock(h) ==
  LET k == handler[h].key
      t == CurrentLine(h).target
      after == After(k, CurrentLine(h), balance[t])
  IN  /\ handler[h].step = "balance"
      /\ Lock(h, InBounds(after),
              [handler[h] EXCEPT
                 !.buffer[t] = after,
                 !.at = @ + 1,
                 !.step = IF handler[h].at = Len(Lines(k))
                          THEN "commit" ELSE LineStep(k)])

Commit(h) ==
  /\ handler[h].step = "commit"
  /\ balance' = [t \in Targets |-> IF handler[h].buffer[t] = NoWrite THEN balance[t]
                                   ELSE handler[h].buffer[t]]
  /\ Contract!Record(handler[h].key)
  /\ End(h)

\* The process or its connection dies, or a statement fails.
Crash(h) == Running(h) /\ Rollback(h)

\* PostgreSQL's deadlock detector ends one of the requests of a circle.
DeadlockVictim(h) == Deadlocked(h) /\ Rollback(h)

Proceed(h) ==
  \/ TakeKeyLock(h)
  \/ CheckReplay(h)
  \/ TakeHeadLock(h)
  \/ TakeReservationLock(h)
  \/ TakeBalanceLock(h)
  \/ Commit(h)

Next ==
  \E h \in Handlers :
    \/ \E k \in Keys : Begin(h, k)
    \/ Proceed(h)
    \/ Crash(h)
    \/ DeadlockVictim(h)

Spec == Init /\ [][Next]_vars

\* Connections make progress; lock queues serve everyone in turn, so that a
\* request whose lock comes free again and again gets it (strong fairness); and
\* the deadlock detector does its work.
FairSpec ==
  /\ Spec
  /\ \A h \in Handlers : SF_vars(Proceed(h)) /\ WF_vars(DeadlockVictim(h))

-----------------------------------------------------------------------------
HandlerState ==
  [key : Keys \cup {NoKey}, step : Steps, at : Nat \ {0},
   buffer : [Targets -> Balance \cup {NoWrite}]]

TypeOK ==
  /\ balance \in [Targets -> Balance]
  /\ hold \in [Orders -> [Targets -> {"none", "active", "released", "committed"}]]
  /\ phase \in [Orders -> {"draft", "ordered", "cancelled", "shipped"}]
  /\ applied \subseteq Keys
  /\ owner \in [Locks -> Handlers \cup {Nobody}]
  /\ handler \in [Handlers -> HandlerState]
  /\ \A h \in Handlers : ~Running(h) =>
       handler[h] = Idle /\ \A l \in Locks : owner[l] # h

\* The transactions implement the contract: whatever the interleaving, retries,
\* deaths and deadlocks, what becomes visible is a sequence of whole commands,
\* each applied once and within bounds.
ImplementsContract == Contract!Spec

\* A balance that is about to be written was computed from the balance that is
\* still there: no update is lost.
NoLostUpdate ==
  \A h \in Handlers, t \in Targets :
    handler[h].buffer[t] # NoWrite =>
      /\ owner[<<"balance", t>>] = h
      /\ \E i \in 1..(handler[h].at - 1) :
           LET line == Lines(handler[h].key)[i]
           IN  /\ line.target = t
               /\ handler[h].buffer[t] = After(handler[h].key, line, balance[t])

\* Every request ends: with its commands done, refused, replayed or, when
\* requests block each other, given up for a retry.
EveryRequestEnds == \A h \in Handlers : Running(h) ~> ~Running(h)
=============================================================================
