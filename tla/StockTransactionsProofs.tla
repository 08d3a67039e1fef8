----------------------- MODULE StockTransactionsProofs -----------------------
(***************************************************************************)
(* The stock transactions implement their contract, for every set of       *)
(* commands, orders, targets and connections: the locks a request holds    *)
(* keep what it has read true until it commits.                            *)
(***************************************************************************)
EXTENDS StockTransactions, TLAPS

-----------------------------------------------------------------------------
\* The commands.

LEMMA CommandsHaveLines ==
  ASSUME NEW k \in Keys
  PROVE  /\ Lines(k) \in Seq(Line)
         /\ Lines(k) # << >>
         /\ \A i, j \in DOMAIN Lines(k) : Lines(k)[i].target = Lines(k)[j].target => i = j
         /\ IsOrderCommand(k) \/ Settles(k) => Work[k].order \in Orders
<1>1. Work[k] \in OrderCommand \cup DeskCommand
  BY StockCommandsAssumption
<1>2. CASE Work[k] \in OrderCommand
  <2>1. Work[k].kind \in {"confirm", "cancel", "ship"} /\ Work[k].order \in Orders
    BY <1>2 DEF OrderCommand
  <2>2. Lines(k) = OrderItems[Work[k].order]
    BY <2>1 DEF Lines
  <2> QED
    BY <2>1, <2>2, StockCommandsAssumption
<1>3. CASE Work[k] \in [kind : {"release", "commit"}, order : Orders, item : Nat \ {0}]
  <2>1. Work[k].kind \in {"release", "commit"} /\ Work[k].order \in Orders
    BY <1>3
  <2>2. Lines(k) = <<OrderItems[Work[k].order][Work[k].item]>>
    BY <2>1 DEF Lines
  <2>3. OrderItems[Work[k].order][Work[k].item] \in Line
    BY <2>1, StockCommandsAssumption
  <2> QED
    BY <2>1, <2>2, <2>3
<1>4. CASE Work[k] \in [kind : {"move"}, line : Line]
  <2>1. Work[k].kind = "move" /\ Work[k].line \in Line
    BY <1>4
  <2>2. Lines(k) = <<Work[k].line>>
    BY <2>1 DEF Lines
  <2>3. ~IsOrderCommand(k) /\ ~Settles(k)
    BY <2>1 DEF IsOrderCommand, Settles
  <2> QED
    BY <2>1, <2>2, <2>3
<1> QED
  BY <1>1, <1>2, <1>3, <1>4 DEF DeskCommand

LEMMA LinePositions ==
  ASSUME NEW k \in Keys
  PROVE  /\ Len(Lines(k)) \in Nat \ {0}
         /\ DOMAIN Lines(k) = 1..Len(Lines(k))
         /\ 1 \in DOMAIN Lines(k)
         /\ \A i \in DOMAIN Lines(k) : i \in Nat /\ ~(i < 1)
<1>1. PICK lines : lines = Lines(k)
  OBVIOUS
<1>2. lines \in Seq(Line) /\ lines # << >>
  BY <1>1, CommandsHaveLines
<1> QED
  BY <1>1, <1>2

LEMMA AfterIsBalance ==
  ASSUME NEW k \in Keys, NEW line \in Line, NEW b \in Balance
  PROVE  After(k, line, b) \in Balance
<1> DEFINE q == line.quantity
           x == CASE Work[k].kind = "move" -> q
                  [] Work[k].kind \in {"ship", "commit"} -> -q
                  [] OTHER -> 0
           y == CASE Work[k].kind = "confirm" -> q
                  [] Settles(k) -> -q
                  [] OTHER -> 0
<1>1. q \in Int /\ b.onHand \in Int /\ b.reserved \in Int
  BY DEF Line, Balance
<1>2. x \in Int
  <2>1. CASE Work[k].kind = "move"
    BY <1>1, <2>1
  <2>2. CASE Work[k].kind \in {"ship", "commit"}
    BY <1>1, <2>2
  <2>3. CASE ~(Work[k].kind = "move") /\ ~(Work[k].kind \in {"ship", "commit"})
    BY <1>1, <2>3
  <2> QED
    BY <2>1, <2>2, <2>3
<1>3. y \in Int
  <2>1. CASE Work[k].kind = "confirm"
    BY <1>1, <2>1
  <2>2. CASE Work[k].kind # "confirm" /\ Settles(k)
    BY <1>1, <2>2
  <2>3. CASE Work[k].kind # "confirm" /\ ~Settles(k)
    BY <1>1, <2>3
  <2> QED
    BY <2>1, <2>2, <2>3
<1>4. After(k, line, b) = [onHand |-> b.onHand + x, reserved |-> b.reserved + y]
  BY DEF After
<1> HIDE DEF x, y
<1> QED
  BY <1>1, <1>2, <1>3, <1>4 DEF Balance

-----------------------------------------------------------------------------
\* The invariant.

KeyLock(k) == <<"key", k>>

HeadLock(k) == <<IF Work[k].kind = "confirm" THEN "draft" ELSE "order", Work[k].order>>

HoldLock(k, i) == <<"reservation", Work[k].order, Lines(k)[i].target>>

BalanceLock(t) == <<"balance", t>>

\* What a connection may hold in memory, s, whatever the others do.
Shaped(s) ==
  /\ s \in HandlerState
  /\ s.step = "idle" => s = Idle
  /\ s.step # "idle" => s.key \in Keys
  /\ s.step \in {"key", "replay", "head"} => s.at = 1
  /\ s.step \in {"reservation", "balance"} => s.at \in DOMAIN Lines(s.key)
  /\ s.step = "commit" => s.at = Len(Lines(s.key)) + 1
  /\ s.step = "head" => IsOrderCommand(s.key)
  /\ s.step = "reservation" => Settles(s.key)
  /\ \A t \in Targets : s.buffer[t] # NoWrite =>
       \E i \in DOMAIN Lines(s.key) : i < s.at /\ Lines(s.key)[i].target = t

\* The lines whose reservation, and those whose balance, a request has locked.
Held(s, i) == i < s.at \/ (i = s.at /\ s.step = "balance")

\* What connection h, with s in memory, counts on in the rows it has locked.
Relies(h, s) ==
  s.step # "idle" =>
    /\ s.step # "key" => owner[KeyLock(s.key)] = h
    /\ s.step \notin {"key", "replay"} => s.key \notin applied
    /\ IsOrderCommand(s.key) /\ s.step \in {"reservation", "balance", "commit"} =>
         owner[HeadLock(s.key)] = h /\ Contract!PhaseAllows(s.key)
    /\ \A i \in DOMAIN Lines(s.key) : Settles(s.key) /\ Held(s, i) =>
         /\ owner[HoldLock(s.key, i)] = h
         /\ hold[Work[s.key].order][Lines(s.key)[i].target] = "active"
    /\ \A i \in DOMAIN Lines(s.key) : i < s.at =>
         /\ owner[BalanceLock(Lines(s.key)[i].target)] = h
         /\ s.buffer[Lines(s.key)[i].target] =
              After(s.key, Lines(s.key)[i], balance[Lines(s.key)[i].target])
         /\ InBounds(s.buffer[Lines(s.key)[i].target])

Rows ==
  /\ balance \in [Targets -> Balance]
  /\ hold \in [Orders -> [Targets -> {"none", "active", "released", "committed"}]]
  /\ phase \in [Orders -> {"draft", "ordered", "cancelled", "shipped"}]
  /\ applied \subseteq Keys

TransactionInv ==
  /\ Rows
  /\ owner \in [Locks -> Handlers \cup {Nobody}]
  /\ handler \in [Handlers -> HandlerState]
  /\ \A h \in Handlers :
       /\ Shaped(handler[h])
       /\ Relies(h, handler[h])
       /\ ~Running(h) => \A l \in Locks : owner[l] # h

\* The rows another connection g has locked stay as g has read them.
Undisturbed(g) ==
  /\ \A k \in applied' \ applied : owner[KeyLock(k)] # g
  /\ \A t \in Targets : owner[BalanceLock(t)] = g => balance'[t] = balance[t]
  /\ \A k \in Keys : \A i \in DOMAIN Lines(k) :
       /\ Settles(k)
       /\ owner[HoldLock(k, i)] = g
       /\ hold[Work[k].order][Lines(k)[i].target] = "active"
       => hold'[Work[k].order][Lines(k)[i].target] = "active"
  /\ \A k \in Keys : IsOrderCommand(k) /\ owner[HeadLock(k)] = g /\ Contract!PhaseAllows(k) =>
       Contract!PhaseAllows(k)'

LEMMA LocksExist ==
  ASSUME NEW k \in Keys
  PROVE  /\ KeyLock(k) \in Locks
         /\ IsOrderCommand(k) => HeadLock(k) \in Locks
         /\ \A i \in DOMAIN Lines(k) :
              /\ Lines(k)[i] \in Line
              /\ Lines(k)[i].target \in Targets
              /\ Settles(k) => HoldLock(k, i) \in Locks
         /\ \A t \in Targets : BalanceLock(t) \in Locks
<1>1. KeyLock(k) \in Locks
  BY DEF KeyLock, Locks
<1>2. \A t \in Targets : BalanceLock(t) \in Locks
  BY DEF BalanceLock, Locks
<1>3. IsOrderCommand(k) => HeadLock(k) \in Locks
  BY CommandsHaveLines DEF HeadLock, Locks
<1>4. ASSUME NEW i \in DOMAIN Lines(k)
      PROVE  Lines(k)[i] \in Line /\ Lines(k)[i].target \in Targets
  <2>1. Lines(k) \in Seq(Line)
    BY CommandsHaveLines
  <2>2. Lines(k)[i] \in Line
    BY <2>1
  <2> QED
    BY <2>2 DEF Line
<1>5. ASSUME NEW i \in DOMAIN Lines(k), Settles(k)
      PROVE  HoldLock(k, i) \in Locks
  BY <1>4, <1>5, CommandsHaveLines DEF HoldLock, Locks
<1> QED
  BY <1>1, <1>2, <1>3, <1>4, <1>5

LEMMA OthersRely ==
  ASSUME NEW g \in Handlers, NEW s, Shaped(s), Relies(g, s), Undisturbed(g),
         \A l \in Locks : owner[l] = g => owner'[l] = g
  PROVE  Relies(g, s)'
<1> SUFFICES ASSUME s.step # "idle" PROVE Relies(g, s)'
  BY DEF Relies
<1> DEFINE k == s.key
<1>0. k \in Keys
  BY DEF Shaped
<1>1. s.step # "key" => owner'[KeyLock(k)] = g
  BY <1>0, LocksExist DEF Relies
<1>2. s.step \notin {"key", "replay"} => k \notin applied'
  BY <1>0 DEF Relies, Undisturbed
<1>3. IsOrderCommand(k) /\ s.step \in {"reservation", "balance", "commit"} =>
        owner'[HeadLock(k)] = g /\ Contract!PhaseAllows(k)'
  BY <1>0, LocksExist DEF Relies, Undisturbed
<1>4. ASSUME NEW i \in DOMAIN Lines(k), Settles(k), Held(s, i)
      PROVE  /\ owner'[HoldLock(k, i)] = g
             /\ hold'[Work[k].order][Lines(k)[i].target] = "active"
  BY <1>0, <1>4, LocksExist DEF Relies, Undisturbed
<1>5. ASSUME NEW i \in DOMAIN Lines(k), i < s.at
      PROVE  /\ owner'[BalanceLock(Lines(k)[i].target)] = g
             /\ s.buffer[Lines(k)[i].target] = After(k, Lines(k)[i], balance'[Lines(k)[i].target])
             /\ InBounds(s.buffer[Lines(k)[i].target])
  BY <1>0, <1>5, LocksExist DEF Relies, Undisturbed
<1> QED
  BY <1>1, <1>2, <1>3, <1>4, <1>5 DEF Relies

LEMMA StepKeeps ==
  ASSUME TransactionInv, NEW h \in Handlers, NEW n,
         handler' = [handler EXCEPT ![h] = n], Shaped(n), Relies(h, n)',
         n.step = "idle" => \A l \in Locks : owner'[l] # h,
         owner' \in [Locks -> Handlers \cup {Nobody}],
         \A g \in Handlers \ {h}, l \in Locks : owner'[l] = g <=> owner[l] = g,
         Rows', \A g \in Handlers \ {h} : Undisturbed(g)
  PROVE  TransactionInv'
<1>1. handler' \in [Handlers -> HandlerState]
  BY DEF TransactionInv, Shaped
<1>2. ASSUME NEW g \in Handlers
      PROVE  /\ Shaped(handler'[g])
             /\ Relies(g, handler[g])'
             /\ ~Running(g)' => \A l \in Locks : owner'[l] # g
  <2>1. CASE g = h
    BY <2>1 DEF TransactionInv, Running
  <2>2. CASE g # h
    <3>1. handler'[g] = handler[g]
      BY <2>2 DEF TransactionInv
    <3>2. Relies(g, handler[g])
      BY DEF TransactionInv
    <3> DEFINE s == handler[g]
    <3>3. PICK x : x = s
      OBVIOUS
    <3>4. Shaped(x) /\ Relies(g, x)
      BY <3>2, <3>3 DEF TransactionInv
    <3>5. Relies(g, x)'
      BY <2>2, <3>4, OthersRely
    <3>6. Relies(g, handler[g])'
      BY <3>1, <3>3, <3>5
    <3> QED
      BY <2>2, <3>1, <3>4, <3>3, <3>6 DEF TransactionInv, Running
  <2> QED
    BY <2>1, <2>2
<1> QED
  BY <1>1, <1>2 DEF TransactionInv

LEMMA NothingDisturbed ==
  ASSUME UNCHANGED committed, NEW g \in Handlers
  PROVE  Undisturbed(g)
<1>1. \A k \in Keys : Contract!PhaseAllows(k)' <=> Contract!PhaseAllows(k)
  BY DEF committed, Contract!PhaseAllows
<1> QED
  BY <1>1 DEF committed, Undisturbed

LEMMA IdleIsShaped == Shaped(Idle)
  BY DEF Shaped, Idle, HandlerState, Steps

LEMMA EndKeeps ==
  ASSUME TransactionInv, NEW h \in Handlers, End(h), Rows',
         \A g \in Handlers \ {h} : Undisturbed(g)
  PROVE  TransactionInv'
<1>1. Relies(h, Idle)'
  BY DEF Relies, Idle
<1>2. /\ owner' \in [Locks -> Handlers \cup {Nobody}]
      /\ \A l \in Locks : owner'[l] # h
      /\ \A g \in Handlers \ {h}, l \in Locks : owner'[l] = g <=> owner[l] = g
  BY StockTransactionsAssumption DEF TransactionInv, End
<1>3. handler' = [handler EXCEPT ![h] = Idle]
  BY DEF End
<1> QED
  BY <1>1, <1>2, <1>3, IdleIsShaped, StepKeeps

LEMMA RollbackKeeps ==
  ASSUME TransactionInv, NEW h \in Handlers, Rollback(h)
  PROVE  TransactionInv'
<1>1. End(h) /\ UNCHANGED committed
  BY DEF Rollback
<1>2. Rows'
  BY <1>1 DEF TransactionInv, Rows, committed
<1> QED
  BY <1>1, <1>2, NothingDisturbed, EndKeeps

\* A connection takes a lock, or none, and goes on with n in memory.
LEMMA GoesOn ==
  ASSUME TransactionInv, NEW h \in Handlers, NEW n, UNCHANGED committed,
         \/ owner' = owner
         \/ \E l \in Locks : owner[l] = Nobody /\ owner' = [owner EXCEPT ![l] = h],
         handler' = [handler EXCEPT ![h] = n], Shaped(n), n.step # "idle", Relies(h, n)'
  PROVE  TransactionInv'
<1>1. /\ owner' \in [Locks -> Handlers \cup {Nobody}]
      /\ \A g \in Handlers \ {h}, l \in Locks : owner'[l] = g <=> owner[l] = g
  BY StockTransactionsAssumption DEF TransactionInv
<1>2. Rows'
  BY DEF TransactionInv, Rows, committed
<1> QED
  BY <1>1, <1>2, NothingDisturbed, StepKeeps

\* What h has read stays true while h itself goes on.
LEMMA OwnerRelies ==
  ASSUME TransactionInv, NEW h \in Handlers, UNCHANGED committed,
         \/ owner' = owner
         \/ \E l \in Locks : owner[l] = Nobody /\ owner' = [owner EXCEPT ![l] = h],
         NEW s, s = handler[h]
  PROVE  Relies(h, s)'
<1>1. \A l \in Locks : owner[l] = h => owner'[l] = h
  BY DEF TransactionInv
<1>2. Shaped(s) /\ Relies(h, s)
  BY DEF TransactionInv
<1> QED
  BY <1>1, <1>2, NothingDisturbed, OthersRely

\* The request moves to another step, with the same lines done.
LEMMA Stepped ==
  ASSUME NEW s \in HandlerState, NEW step \in Steps
  PROVE  LET n == [s EXCEPT !.step = step]
         IN  n \in HandlerState /\ n.step = step /\ n.key = s.key /\ n.at = s.at
             /\ n.buffer = s.buffer
  BY Zenon DEF HandlerState

LEMMA BeginKeeps ==
  ASSUME TransactionInv, NEW h \in Handlers, NEW k \in Keys, Begin(h, k)
  PROVE  TransactionInv'
<1>1. handler[h] = Idle /\ Shaped(Idle)
  BY IdleIsShaped DEF Begin, Running, TransactionInv, Shaped
<1>2. PICK n : n = [Idle EXCEPT !.key = k, !.step = "key"]
  OBVIOUS
<1>3. n \in HandlerState /\ n.step = "key" /\ n.key = k /\ n.at = Idle.at /\ n.buffer = Idle.buffer
  <2>1. "key" \in Steps /\ k \in Keys \cup {NoKey} /\ Idle \in HandlerState
    BY <1>1 DEF Steps, Shaped
  <2> QED
    BY <1>2, <2>1, Zenon DEF HandlerState
<1>4. Idle.at = 1 /\ \A t \in Targets : Idle.buffer[t] = NoWrite
  BY DEF Idle
<1>5. handler' = [handler EXCEPT ![h] = n] /\ owner' = owner /\ UNCHANGED committed
  BY <1>1, <1>2 DEF Begin
<1>6. Shaped(n)
  BY <1>3, <1>4 DEF Shaped
<1>7. Relies(h, n)'
  BY <1>3, <1>4, LinePositions DEF Relies, Held
<1> QED
  BY <1>3, <1>5, <1>6, <1>7, GoesOn

LEMMA TakeKeyLockKeeps ==
  ASSUME TransactionInv, NEW h \in Handlers, TakeKeyLock(h)
  PROVE  TransactionInv'
<1>0. PICK s : s = handler[h]
  OBVIOUS
<1>1. s \in HandlerState /\ Shaped(s) /\ s.step = "key" /\ s.key \in Keys /\ s.at = 1
  BY <1>0 DEF TakeKeyLock, TransactionInv, Shaped
<1>2. PICK n : n = [s EXCEPT !.step = "replay"]
  OBVIOUS
<1>3. n \in HandlerState /\ n.step = "replay" /\ n.key = s.key /\ n.at = s.at /\ n.buffer = s.buffer
  BY <1>1, <1>2, Stepped DEF Steps
<1>4. KeyLock(s.key) \in Locks
  BY <1>1, LocksExist
<1>5. /\ owner[KeyLock(s.key)] = Nobody /\ owner' = [owner EXCEPT ![KeyLock(s.key)] = h]
      /\ handler' = [handler EXCEPT ![h] = n] /\ UNCHANGED committed
  BY <1>0, <1>1, <1>2 DEF TakeKeyLock, Lock, Wants, KeyLock
<1>6. owner'[KeyLock(s.key)] = h
  BY <1>4, <1>5 DEF TransactionInv
<1>7. Shaped(n)
  BY <1>1, <1>3 DEF Shaped
<1>8. Relies(h, n)'
  BY <1>1, <1>3, <1>6, LinePositions DEF Relies, Held
<1> QED
  BY <1>3, <1>4, <1>5, <1>7, <1>8, GoesOn

LEMMA CheckReplayKeeps ==
  ASSUME TransactionInv, NEW h \in Handlers, CheckReplay(h)
  PROVE  TransactionInv'
<1>0. PICK s : s = handler[h]
  OBVIOUS
<1>1. s \in HandlerState /\ Shaped(s) /\ s.step = "replay" /\ s.key \in Keys /\ s.at = 1
  BY <1>0 DEF CheckReplay, TransactionInv, Shaped
<1>2. CASE s.key \in applied
  BY <1>0, <1>2, RollbackKeeps DEF CheckReplay, Rollback
<1>3. CASE s.key \notin applied
  <2>1. PICK step : step = IF IsOrderCommand(s.key) THEN "head" ELSE LineStep(s.key)
    OBVIOUS
  <2>2. /\ step \in {"head", "reservation", "balance"}
        /\ step = "head" <=> IsOrderCommand(s.key)
        /\ step = "reservation" => Settles(s.key)
        /\ step = "balance" => ~Settles(s.key)
    BY <2>1 DEF LineStep
  <2>3. PICK n : n = [s EXCEPT !.step = step]
    OBVIOUS
  <2>4. /\ n \in HandlerState /\ n.step = step /\ n.key = s.key /\ n.at = s.at
        /\ n.buffer = s.buffer
    <3>1. step \in Steps
      BY <2>2 DEF Steps
    <3> QED
      BY <1>1, <2>3, <3>1, Stepped
  <2>5. handler' = [handler EXCEPT ![h] = n] /\ owner' = owner /\ UNCHANGED committed
    BY <1>0, <1>3, <2>1, <2>3 DEF CheckReplay
  <2>6. Shaped(n)
    BY <1>1, <2>2, <2>4, LinePositions DEF Shaped
  <2>7. Relies(h, s)'
    BY <1>0, <2>5, OwnerRelies
  <2>8. applied' = applied
    BY <2>5 DEF committed
  <2>9. Relies(h, n)'
    <3>1. s.step # "idle" /\ s.step # "key"
      BY <1>1
    <3>2. owner'[KeyLock(s.key)] = h
      BY <3>1, <2>7 DEF Relies
    <3>3. \A i \in DOMAIN Lines(s.key) : ~(i < s.at) /\ (Settles(s.key) => ~Held(n, i))
      BY <1>1, <2>2, <2>4, LinePositions DEF Held
    <3>4. ~(IsOrderCommand(s.key) /\ n.step \in {"reservation", "balance", "commit"})
      BY <2>2, <2>4
    <3> QED
      BY <1>3, <2>4, <2>8, <3>2, <3>3, <3>4 DEF Relies
  <2> QED
    BY <2>2, <2>4, <2>5, <2>6, <2>9, GoesOn
<1> QED
  BY <1>2, <1>3

LEMMA TakeHeadLockKeeps ==
  ASSUME TransactionInv, NEW h \in Handlers, TakeHeadLock(h)
  PROVE  TransactionInv'
<1>0. PICK s : s = handler[h]
  OBVIOUS
<1>1. /\ s \in HandlerState /\ Shaped(s) /\ s.step = "head" /\ s.key \in Keys /\ s.at = 1
      /\ IsOrderCommand(s.key)
  BY <1>0 DEF TakeHeadLock, TransactionInv, Shaped
<1>2. CASE ~Contract!PhaseAllows(s.key)
  BY <1>0, <1>2, RollbackKeeps DEF TakeHeadLock, Lock, Rollback
<1>3. CASE Contract!PhaseAllows(s.key)
  <2>1. PICK step : step = LineStep(s.key)
    OBVIOUS
  <2>2. /\ step \in {"reservation", "balance"}
        /\ step = "reservation" <=> Settles(s.key)
    BY <2>1 DEF LineStep
  <2>3. PICK n : n = [s EXCEPT !.step = step]
    OBVIOUS
  <2>4. /\ n \in HandlerState /\ n.step = step /\ n.key = s.key /\ n.at = s.at
        /\ n.buffer = s.buffer
    <3>1. step \in Steps
      BY <2>2 DEF Steps
    <3> QED
      BY <1>1, <2>3, <3>1, Stepped
  <2>5. HeadLock(s.key) \in Locks
    BY <1>1, LocksExist
  <2>6. /\ owner[HeadLock(s.key)] = Nobody /\ owner' = [owner EXCEPT ![HeadLock(s.key)] = h]
        /\ handler' = [handler EXCEPT ![h] = n] /\ UNCHANGED committed
    BY <1>0, <1>1, <1>3, <2>1, <2>3 DEF TakeHeadLock, Lock, Wants, WorkOf, HeadLock
  <2>7. owner'[HeadLock(s.key)] = h
    BY <2>5, <2>6 DEF TransactionInv
  <2>8. Contract!PhaseAllows(s.key)'
    BY <1>3, <2>6 DEF Contract!PhaseAllows, committed
  <2>9. Shaped(n)
    BY <1>1, <2>2, <2>4, LinePositions DEF Shaped
  <2>10. Relies(h, s)'
    BY <1>0, <2>5, <2>6, OwnerRelies
  <2>11. Relies(h, n)'
    <3>1. s.step # "idle" /\ s.step \notin {"key", "replay"}
      BY <1>1
    <3>2. owner'[KeyLock(s.key)] = h /\ s.key \notin applied'
      BY <3>1, <2>10 DEF Relies
    <3>3. \A i \in DOMAIN Lines(s.key) : ~(i < s.at) /\ (Settles(s.key) => ~Held(n, i))
      BY <1>1, <2>2, <2>4, LinePositions DEF Held
    <3> QED
      BY <2>4, <2>7, <2>8, <3>2, <3>3 DEF Relies
  <2> QED
    BY <2>2, <2>4, <2>5, <2>6, <2>9, <2>11, GoesOn
<1> QED
  BY <1>2, <1>3

LEMMA TakeReservationLockKeeps ==
  ASSUME TransactionInv, NEW h \in Handlers, TakeReservationLock(h)
  PROVE  TransactionInv'
<1>0. PICK s : s = handler[h]
  OBVIOUS
<1>1. /\ s \in HandlerState /\ Shaped(s) /\ s.step = "reservation" /\ s.key \in Keys
      /\ s.at \in DOMAIN Lines(s.key) /\ Settles(s.key)
  BY <1>0 DEF TakeReservationLock, TransactionInv, Shaped
<1> DEFINE active == hold[Work[s.key].order][Lines(s.key)[s.at].target] = "active"
<1>2. CASE ~active
  BY <1>0, <1>2, RollbackKeeps DEF TakeReservationLock, Lock, Rollback, WorkOf, CurrentLine
<1>3. CASE active
  <2>1. PICK n : n = [s EXCEPT !.step = "balance"]
    OBVIOUS
  <2>2. /\ n \in HandlerState /\ n.step = "balance" /\ n.key = s.key /\ n.at = s.at
        /\ n.buffer = s.buffer
    BY <1>1, <2>1, Stepped DEF Steps
  <2>3. HoldLock(s.key, s.at) \in Locks
    BY <1>1, LocksExist
  <2>4. /\ owner[HoldLock(s.key, s.at)] = Nobody
        /\ owner' = [owner EXCEPT ![HoldLock(s.key, s.at)] = h]
        /\ handler' = [handler EXCEPT ![h] = n] /\ UNCHANGED committed
    BY <1>0, <1>1, <1>3, <2>1
       DEF TakeReservationLock, Lock, Wants, WorkOf, CurrentLine, HoldLock
  <2>5. owner'[HoldLock(s.key, s.at)] = h
    BY <2>3, <2>4 DEF TransactionInv
  <2>6. hold'[Work[s.key].order][Lines(s.key)[s.at].target] = "active"
    BY <1>3, <2>4 DEF committed
  <2>7. Shaped(n)
    BY <1>1, <2>2 DEF Shaped
  <2>8. Relies(h, s)'
    BY <1>0, <2>3, <2>4, OwnerRelies
  <2>9. Relies(h, n)'
    <3>1. s.step # "idle" /\ s.step \notin {"key", "replay"} /\ n.step \notin {"key", "replay"}
      BY <1>1, <2>2
    <3>2. /\ owner'[KeyLock(s.key)] = h /\ s.key \notin applied'
          /\ IsOrderCommand(s.key) =>
               owner'[HeadLock(s.key)] = h /\ Contract!PhaseAllows(s.key)'
      BY <3>1, <1>1, <2>8 DEF Relies
    <3>3. \A i \in DOMAIN Lines(s.key) : Held(n, i) <=> Held(s, i) \/ i = s.at
      BY <1>1, <2>2 DEF Held
    <3>4. \A i \in DOMAIN Lines(s.key) : Settles(s.key) /\ Held(n, i) =>
            /\ owner'[HoldLock(s.key, i)] = h
            /\ hold'[Work[s.key].order][Lines(s.key)[i].target] = "active"
      BY <3>1, <3>3, <2>5, <2>6, <2>8 DEF Relies
    <3>5. \A i \in DOMAIN Lines(s.key) : i < n.at =>
            /\ owner'[BalanceLock(Lines(s.key)[i].target)] = h
            /\ n.buffer[Lines(s.key)[i].target] =
                 After(s.key, Lines(s.key)[i], balance'[Lines(s.key)[i].target])
            /\ InBounds(n.buffer[Lines(s.key)[i].target])
      BY <3>1, <2>2, <2>8 DEF Relies
    <3> QED
      BY <2>2, <3>1, <3>2, <3>4, <3>5 DEF Relies
  <2> QED
    BY <2>2, <2>3, <2>4, <2>7, <2>9, GoesOn
<1> QED
  BY <1>2, <1>3

LEMMA TakeBalanceLockKeeps ==
  ASSUME TransactionInv, NEW h \in Handlers, TakeBalanceLock(h)
  PROVE  TransactionInv'
<1>0. PICK s : s = handler[h]
  OBVIOUS
<1>1. /\ s \in HandlerState /\ Shaped(s) /\ s.step = "balance" /\ s.key \in Keys
      /\ s.at \in DOMAIN Lines(s.key)
  BY <1>0 DEF TakeBalanceLock, TransactionInv, Shaped
<1>2. PICK line : line = Lines(s.key)[s.at]
  OBVIOUS
<1>3. line \in Line /\ line.target \in Targets
  BY <1>1, <1>2, LocksExist
<1>4. PICK after : after = After(s.key, line, balance[line.target])
  OBVIOUS
<1>5. after \in Balance
  BY <1>1, <1>3, <1>4, AfterIsBalance DEF TransactionInv, Rows
<1>6. CASE ~InBounds(after)
  BY <1>0, <1>2, <1>4, <1>6, RollbackKeeps DEF TakeBalanceLock, Lock, Rollback, CurrentLine
<1>7. CASE InBounds(after)
  <2>1. PICK step : step = IF s.at = Len(Lines(s.key)) THEN "commit" ELSE LineStep(s.key)
    OBVIOUS
  <2>2. /\ step \in {"reservation", "balance", "commit"}
        /\ step = "reservation" => Settles(s.key)
        /\ step = "balance" => ~Settles(s.key)
        /\ step = "commit" <=> s.at = Len(Lines(s.key))
    BY <2>1 DEF LineStep
  <2>3. PICK n : n = [s EXCEPT !.buffer[line.target] = after, !.at = @ + 1, !.step = step]
    OBVIOUS
  <2>4. /\ n \in HandlerState /\ n.step = step /\ n.key = s.key /\ n.at = s.at + 1
        /\ n.buffer = [s.buffer EXCEPT ![line.target] = after]
    <3>1. step \in Steps
      BY <2>2 DEF Steps
    <3>2. s.at + 1 \in Nat \ {0} /\ s.buffer \in [Targets -> Balance \cup {NoWrite}]
      BY <1>1 DEF HandlerState
    <3>3. [s.buffer EXCEPT ![line.target] = after] \in [Targets -> Balance \cup {NoWrite}]
      BY <1>5, <3>2
    <3> QED
      BY <1>1, <2>3, <3>1, <3>2, <3>3, Zenon DEF HandlerState
  <2>5. BalanceLock(line.target) \in Locks
    BY <1>1, <1>3, LocksExist
  <2>6. /\ owner[BalanceLock(line.target)] = Nobody
        /\ owner' = [owner EXCEPT ![BalanceLock(line.target)] = h]
        /\ handler' = [handler EXCEPT ![h] = n] /\ UNCHANGED committed
    BY <1>0, <1>1, <1>2, <1>4, <1>7, <2>1, <2>3
       DEF TakeBalanceLock, Lock, Wants, WorkOf, CurrentLine, BalanceLock
  <2>7. owner'[BalanceLock(line.target)] = h
    BY <2>5, <2>6 DEF TransactionInv
  <2>8. \A i \in DOMAIN Lines(s.key) : i < n.at <=> i < s.at \/ i = s.at
    BY <1>1, <2>4, LinePositions
  <2>9. \A i \in DOMAIN Lines(s.key) : i < s.at => Lines(s.key)[i].target # line.target
    BY <1>1, <1>2, LinePositions, CommandsHaveLines
  <2>10. n.buffer[line.target] = after
         /\ \A t \in Targets : t # line.target => n.buffer[t] = s.buffer[t]
    BY <1>1, <1>3, <2>4 DEF HandlerState
  <2>11. Shaped(n)
    <3>1. step # "commit" => n.at \in DOMAIN Lines(s.key)
      BY <1>1, <2>2, <2>4, LinePositions
    <3>2. step = "commit" => n.at = Len(Lines(s.key)) + 1
      BY <2>2, <2>4
    <3>3. ASSUME NEW t \in Targets, n.buffer[t] # NoWrite
          PROVE  \E i \in DOMAIN Lines(s.key) : i < n.at /\ Lines(s.key)[i].target = t
      <4>1. CASE t = line.target
        BY <4>1, <1>1, <1>2, <2>8
      <4>2. CASE t # line.target
        BY <4>2, <3>3, <1>1, <2>8, <2>10 DEF Shaped
      <4> QED
        BY <4>1, <4>2
    <3> QED
      BY <1>1, <2>2, <2>4, <3>1, <3>2, <3>3 DEF Shaped
  <2>12. Relies(h, s)'
    BY <1>0, <2>5, <2>6, OwnerRelies
  <2>13. Relies(h, n)'
    <3>1. s.step # "idle" /\ s.step \notin {"key", "replay"} /\ n.step \notin {"key", "replay"}
      BY <1>1, <2>2, <2>4
    <3>2. /\ owner'[KeyLock(s.key)] = h /\ s.key \notin applied'
          /\ IsOrderCommand(s.key) =>
               owner'[HeadLock(s.key)] = h /\ Contract!PhaseAllows(s.key)'
      BY <3>1, <1>1, <2>12 DEF Relies
    <3>3. \A i \in DOMAIN Lines(s.key) : Settles(s.key) /\ Held(n, i) => Held(s, i)
      BY <1>1, <2>2, <2>4, <2>8 DEF Held
    <3>4. \A i \in DOMAIN Lines(s.key) : Settles(s.key) /\ Held(n, i) =>
            /\ owner'[HoldLock(s.key, i)] = h
            /\ hold'[Work[s.key].order][Lines(s.key)[i].target] = "active"
      BY <3>1, <3>3, <2>12 DEF Relies
    <3>5. ASSUME NEW i \in DOMAIN Lines(s.key), i < n.at
          PROVE  /\ owner'[BalanceLock(Lines(s.key)[i].target)] = h
                 /\ n.buffer[Lines(s.key)[i].target] =
                      After(s.key, Lines(s.key)[i], balance'[Lines(s.key)[i].target])
                 /\ InBounds(n.buffer[Lines(s.key)[i].target])
      <4>1. CASE i = s.at
        <5>1. balance' = balance
          BY <2>6 DEF committed
        <5> QED
          BY <4>1, <5>1, <1>2, <1>4, <1>7, <2>7, <2>10
      <4>2. CASE i < s.at
        <5>1. Lines(s.key)[i].target \in Targets
          BY <1>1, LocksExist
        <5>2. n.buffer[Lines(s.key)[i].target] = s.buffer[Lines(s.key)[i].target]
          BY <4>2, <5>1, <2>9, <2>10
        <5> QED
          BY <3>1, <4>2, <5>2, <2>12 DEF Relies
      <4> QED
        BY <3>5, <4>1, <4>2, <2>8
    <3> QED
      BY <2>4, <3>1, <3>2, <3>4, <3>5 DEF Relies
  <2> QED
    BY <2>2, <2>4, <2>5, <2>6, <2>11, <2>13, GoesOn
<1> QED
  BY <1>6, <1>7

\* The contract reads the commands as the transactions do.
LEMMA SameCommands ==
  ASSUME NEW k
  PROVE  /\ Contract!Lines(k) = Lines(k)
         /\ Contract!Settles(k) <=> Settles(k)
         /\ Contract!IsOrderCommand(k) <=> IsOrderCommand(k)
         /\ Contract!HoldAfter(k) = HoldAfter(k)
         /\ Contract!PhaseAfter(k) = PhaseAfter(k)
         /\ \A t : Contract!LinesOn(k, t) = LinesOn(k, t)
         /\ \A line, b : Contract!After(k, line, b) = After(k, line, b)
         /\ \A b : Contract!InBounds(b) <=> InBounds(b)
<1>1. Contract!Lines(k) = Lines(k)
  BY DEF Contract!Lines, Lines
<1>2. Contract!Settles(k) <=> Settles(k)
  BY DEF Contract!Settles, Settles
<1>3. Contract!IsOrderCommand(k) <=> IsOrderCommand(k)
  BY DEF Contract!IsOrderCommand, IsOrderCommand
<1>4. Contract!HoldAfter(k) = HoldAfter(k)
  BY DEF Contract!HoldAfter, HoldAfter
<1>5. Contract!PhaseAfter(k) = PhaseAfter(k)
  BY DEF Contract!PhaseAfter, PhaseAfter
<1>6. ASSUME NEW t PROVE Contract!LinesOn(k, t) = LinesOn(k, t)
  BY <1>1 DEF Contract!LinesOn, LinesOn
<1>7. ASSUME NEW line, NEW b PROVE Contract!After(k, line, b) = After(k, line, b)
  BY DEF Contract!After, After, Contract!Settles, Settles
<1>8. ASSUME NEW b PROVE Contract!InBounds(b) <=> InBounds(b)
  BY DEF Contract!InBounds, InBounds
<1> QED
  BY <1>1, <1>2, <1>3, <1>4, <1>5, <1>6, <1>7, <1>8

\* A request that is about to commit has locked all it writes.
LEMMA ReadyToCommit ==
  ASSUME TransactionInv, NEW h \in Handlers, NEW s, s = handler[h], s.step = "commit"
  PROVE  /\ s \in HandlerState /\ s.key \in Keys /\ s.key \notin applied
         /\ owner[KeyLock(s.key)] = h
         /\ IsOrderCommand(s.key) => owner[HeadLock(s.key)] = h /\ Contract!PhaseAllows(s.key)
         /\ \A i \in DOMAIN Lines(s.key) :
              /\ Settles(s.key) => /\ owner[HoldLock(s.key, i)] = h
                                   /\ hold[Work[s.key].order][Lines(s.key)[i].target] = "active"
              /\ owner[BalanceLock(Lines(s.key)[i].target)] = h
              /\ s.buffer[Lines(s.key)[i].target] =
                   After(s.key, Lines(s.key)[i], balance[Lines(s.key)[i].target])
              /\ InBounds(s.buffer[Lines(s.key)[i].target])
         /\ \A t \in Targets : s.buffer[t] # NoWrite <=> LinesOn(s.key, t) # {}
<1>1. Shaped(s) /\ Relies(h, s) /\ s.key \in Keys /\ s \in HandlerState
  BY DEF TransactionInv, Shaped
<1>2. s.at = Len(Lines(s.key)) + 1
  BY <1>1 DEF Shaped
<1>3. \A i \in DOMAIN Lines(s.key) : i < s.at /\ Held(s, i)
  BY <1>1, <1>2, LinePositions DEF Held
<1>4. \A i \in DOMAIN Lines(s.key) : Lines(s.key)[i] \in Line /\ Lines(s.key)[i].target \in Targets
  BY <1>1, LocksExist
<1>5. ASSUME NEW i \in DOMAIN Lines(s.key)
      PROVE  /\ Settles(s.key) =>
                  /\ owner[HoldLock(s.key, i)] = h
                  /\ hold[Work[s.key].order][Lines(s.key)[i].target] = "active"
             /\ owner[BalanceLock(Lines(s.key)[i].target)] = h
             /\ s.buffer[Lines(s.key)[i].target] =
                  After(s.key, Lines(s.key)[i], balance[Lines(s.key)[i].target])
             /\ InBounds(s.buffer[Lines(s.key)[i].target])
  BY <1>1, <1>3 DEF Relies
<1>6. ASSUME NEW t \in Targets
      PROVE  s.buffer[t] # NoWrite <=> LinesOn(s.key, t) # {}
  <2>1. s.buffer[t] # NoWrite => LinesOn(s.key, t) # {}
    BY <1>1 DEF Shaped, LinesOn
  <2>2. ASSUME NEW i \in LinesOn(s.key, t)
        PROVE  s.buffer[t] # NoWrite
    <3>1. i \in DOMAIN Lines(s.key) /\ Lines(s.key)[i].target = t
      BY DEF LinesOn
    <3>2. s.buffer[t] = After(s.key, Lines(s.key)[i], balance[t])
      BY <1>5, <3>1
    <3>3. balance[t] \in Balance
      BY DEF TransactionInv, Rows
    <3>4. s.buffer[t] \in Balance
      BY <1>1, <1>4, <3>1, <3>2, <3>3, AfterIsBalance
    <3> QED
      BY <3>4, StockTransactionsAssumption
  <2> QED
    BY <2>1, <2>2
<1>7. /\ s.key \notin applied /\ owner[KeyLock(s.key)] = h
      /\ IsOrderCommand(s.key) => owner[HeadLock(s.key)] = h /\ Contract!PhaseAllows(s.key)
  BY <1>1 DEF Relies
<1> QED
  BY <1>1, <1>5, <1>6, <1>7

\* What a command does to the reservation of an order item.
LEMMA Recorded ==
  ASSUME TransactionInv, NEW k \in Keys, Contract!Record(k), NEW o \in Orders, NEW t \in Targets
  PROVE  /\ hold'[o][t] = IF Work[k].kind # "move" /\ Work[k].order = o /\ LinesOn(k, t) # {}
                          THEN HoldAfter(k) ELSE hold[o][t]
         /\ phase'[o] = IF IsOrderCommand(k) /\ Work[k].order = o THEN PhaseAfter(k) ELSE phase[o]
         /\ applied' = applied \cup {k}
         /\ hold' \in [Orders -> [Targets -> {"none", "active", "released", "committed"}]]
         /\ phase' \in [Orders -> {"draft", "ordered", "cancelled", "shipped"}]
<1>1. /\ hold \in [Orders -> [Targets -> {"none", "active", "released", "committed"}]]
      /\ phase \in [Orders -> {"draft", "ordered", "cancelled", "shipped"}]
  BY DEF TransactionInv, Rows
<1>2. HoldAfter(k) \in {"none", "active", "released", "committed"}
  BY DEF HoldAfter
<1>3. PhaseAfter(k) \in {"draft", "ordered", "cancelled", "shipped"}
  BY DEF PhaseAfter
<1>4. /\ phase'[o] = IF IsOrderCommand(k) /\ Work[k].order = o THEN PhaseAfter(k) ELSE phase[o]
      /\ phase' \in [Orders -> {"draft", "ordered", "cancelled", "shipped"}]
  BY <1>1, <1>3, SameCommands DEF Contract!Record
<1>5. applied' = applied \cup {k}
  BY DEF Contract!Record
<1> DEFINE row == [u \in Targets |-> IF LinesOn(k, u) # {} THEN HoldAfter(k)
                                     ELSE hold[Work[k].order][u]]
<1>6. CASE Work[k].kind = "move"
  <2>1. hold' = hold
    BY <1>6 DEF Contract!Record
  <2> QED
    BY <1>1, <1>4, <1>5, <1>6, <2>1
<1>7. CASE Work[k].kind # "move"
  <2>1. Work[k].order \in Orders
    <3>1. Work[k] \in OrderCommand \cup DeskCommand
      BY StockCommandsAssumption
    <3> QED
      BY <1>7, <3>1 DEF OrderCommand, DeskCommand
  <2>2. hold' = [hold EXCEPT ![Work[k].order] = row]
    BY <1>1, <1>7, <2>1, SameCommands DEF Contract!Record
  <2>3. row \in [Targets -> {"none", "active", "released", "committed"}]
    BY <1>1, <1>2, <2>1
  <2>4. row[t] = IF LinesOn(k, t) # {} THEN HoldAfter(k) ELSE hold[Work[k].order][t]
    OBVIOUS
  <2> HIDE DEF row
  <2>5. hold' \in [Orders -> [Targets -> {"none", "active", "released", "committed"}]]
    BY <1>1, <2>2, <2>3
  <2>6. hold'[o] = IF Work[k].order = o THEN row ELSE hold[o]
    BY <1>1, <2>2
  <2> QED
    BY <1>4, <1>5, <1>7, <2>4, <2>5, <2>6
<1> QED
  BY <1>6, <1>7

LEMMA CommitKeeps ==
  ASSUME TransactionInv, NEW h \in Handlers, Commit(h)
  PROVE  TransactionInv'
<1>0. PICK s : s = handler[h]
  OBVIOUS
<1>1. s.step = "commit" /\ Contract!Record(s.key) /\ End(h)
  BY <1>0 DEF Commit
<1>2. balance' = [t \in Targets |-> IF s.buffer[t] = NoWrite THEN balance[t] ELSE s.buffer[t]]
  BY <1>0 DEF Commit
<1> PICK k : k = s.key
  OBVIOUS
<1>3. k \in Keys /\ owner[KeyLock(k)] = h /\ Contract!Record(k)
  BY <1>0, <1>1, ReadyToCommit
<1>4. Rows'
  <2>1. s.buffer \in [Targets -> Balance \cup {NoWrite}]
    BY <1>0, <1>1, ReadyToCommit DEF HandlerState
  <2>2. balance' \in [Targets -> Balance]
    BY <1>2, <2>1 DEF TransactionInv, Rows
  <2>3. applied' \subseteq Keys
    BY <1>3 DEF TransactionInv, Rows, Contract!Record
  <2>4. hold' \in [Orders -> [Targets -> {"none", "active", "released", "committed"}]]
    <3>1. CASE Orders = {} \/ Targets = {}
      BY <3>1, <1>3 DEF TransactionInv, Rows, Contract!Record
    <3>2. CASE Orders # {} /\ Targets # {}
      BY <3>2, <1>3, Recorded
    <3> QED
      BY <3>1, <3>2
  <2>5. phase' \in [Orders -> {"draft", "ordered", "cancelled", "shipped"}]
    <3>1. PhaseAfter(k) \in {"draft", "ordered", "cancelled", "shipped"}
      BY DEF PhaseAfter
    <3> QED
      BY <1>3, <3>1, SameCommands DEF TransactionInv, Rows, Contract!Record
  <2> QED
    BY <2>2, <2>3, <2>4, <2>5 DEF Rows
<1>5. ASSUME NEW g \in Handlers \ {h}
      PROVE  Undisturbed(g)
  <2>1. \A j \in applied' \ applied : owner[KeyLock(j)] # g
    BY <1>3 DEF Contract!Record
  <2>2. ASSUME NEW t \in Targets, owner[BalanceLock(t)] = g
        PROVE  balance'[t] = balance[t]
    <3>1. LinesOn(k, t) = {}
      BY <2>2, <1>0, <1>1, ReadyToCommit DEF LinesOn
    <3>2. s.buffer[t] = NoWrite
      BY <1>0, <1>1, <3>1, ReadyToCommit
    <3> QED
      BY <1>2, <3>2
  <2>3. ASSUME NEW j \in Keys, NEW i \in DOMAIN Lines(j), Settles(j),
               owner[HoldLock(j, i)] = g, hold[Work[j].order][Lines(j)[i].target] = "active"
        PROVE  hold'[Work[j].order][Lines(j)[i].target] = "active"
    <3> PICK o, t : o = Work[j].order /\ t = Lines(j)[i].target
      OBVIOUS
    <3>1. o \in Orders /\ t \in Targets
      BY <2>3, CommandsHaveLines, LocksExist
    <3>2. CASE Work[k].kind # "move" /\ Work[k].order = o /\ LinesOn(k, t) # {}
      <4>1. PICK e \in DOMAIN Lines(k) : Lines(k)[e].target = t
        BY <3>2 DEF LinesOn
      <4>2. HoldLock(k, e) = HoldLock(j, i)
        BY <3>2, <4>1 DEF HoldLock
      <4>3. ~Settles(k)
        BY <2>3, <4>1, <4>2, <1>0, <1>1, ReadyToCommit
      <4>4. HoldAfter(k) = "active"
        <5>1. Work[k] \in OrderCommand \cup DeskCommand
          BY <1>3, StockCommandsAssumption
        <5>2. Work[k].kind = "confirm"
          BY <3>2, <4>3, <5>1 DEF Settles, OrderCommand, DeskCommand
        <5> QED
          BY <5>2 DEF HoldAfter
      <4> QED
        BY <1>3, <3>1, <3>2, <4>4, Recorded
    <3>3. CASE ~(Work[k].kind # "move" /\ Work[k].order = o /\ LinesOn(k, t) # {})
      BY <2>3, <1>3, <3>1, <3>3, Recorded
    <3> QED
      BY <3>2, <3>3
  <2>4. ASSUME NEW j \in Keys, IsOrderCommand(j), owner[HeadLock(j)] = g, Contract!PhaseAllows(j)
        PROVE  Contract!PhaseAllows(j)'
    <3> PICK o : o = Work[j].order
      OBVIOUS
    <3>1. o \in Orders
      BY <2>4, CommandsHaveLines
    <3>2. phase'[o] = phase[o]
      <4>1. CASE ~(IsOrderCommand(k) /\ Work[k].order = o)
        <5>1. CASE Targets = {}
          BY <1>3, <3>1, <4>1, SameCommands DEF Contract!Record, TransactionInv, Rows
        <5>2. CASE Targets # {}
          BY <1>3, <3>1, <4>1, <5>2, Recorded
        <5> QED
          BY <5>1, <5>2
      <4>2. CASE IsOrderCommand(k) /\ Work[k].order = o
        <5>1. owner[HeadLock(k)] = h /\ Contract!PhaseAllows(k)
          BY <4>2, <1>0, <1>1, ReadyToCommit
        <5>2. Work[k].kind = "confirm" <=> Work[j].kind # "confirm"
          BY <4>2, <5>1, <2>4 DEF HeadLock
        <5>3. phase[o] = "draft" /\ phase[o] = "ordered"
          BY <2>4, <4>2, <5>1, <5>2 DEF Contract!PhaseAllows, IsOrderCommand
        <5> QED
          BY <5>3
      <4> QED
        BY <4>1, <4>2
    <3> QED
      BY <2>4, <3>2 DEF Contract!PhaseAllows
  <2> QED
    BY <2>1, <2>2, <2>3, <2>4 DEF Undisturbed
<1> QED
  BY <1>1, <1>4, <1>5, EndKeeps

\* A transaction that commits is one step of the contract.
LEMMA CommitApplies ==
  ASSUME TransactionInv, NEW h \in Handlers, Commit(h)
  PROVE  Contract!Next
<1>0. PICK s : s = handler[h]
  OBVIOUS
<1>1. s.step = "commit" /\ Contract!Record(s.key)
  BY <1>0 DEF Commit
<1>2. balance' = [t \in Targets |-> IF s.buffer[t] = NoWrite THEN balance[t] ELSE s.buffer[t]]
  BY <1>0 DEF Commit
<1> PICK k : k = s.key
  OBVIOUS
<1>3. k \in Keys /\ k \notin applied
  BY <1>0, <1>1, ReadyToCommit
<1>4. Contract!PhaseAllows(k)
  <2>1. CASE IsOrderCommand(k)
    BY <2>1, <1>0, <1>1, ReadyToCommit
  <2>2. CASE ~IsOrderCommand(k)
    BY <2>2 DEF Contract!PhaseAllows, IsOrderCommand
  <2> QED
    BY <2>1, <2>2
<1>5. ASSUME NEW i \in DOMAIN Lines(k)
      PROVE  /\ Settles(k) => hold[Work[k].order][Lines(k)[i].target] = "active"
             /\ InBounds(After(k, Lines(k)[i], balance[Lines(k)[i].target]))
  BY <1>0, <1>1, ReadyToCommit
<1>6. ASSUME NEW t \in Targets
      PROVE  (IF s.buffer[t] = NoWrite THEN balance[t] ELSE s.buffer[t])
               = IF LinesOn(k, t) = {} THEN balance[t]
                 ELSE After(k, Lines(k)[CHOOSE i \in LinesOn(k, t) : TRUE], balance[t])
  <2>1. CASE LinesOn(k, t) = {}
    BY <2>1, <1>0, <1>1, ReadyToCommit
  <2>2. CASE LinesOn(k, t) # {}
    <3>1. PICK e : e = CHOOSE i \in LinesOn(k, t) : TRUE
      OBVIOUS
    <3>2. e \in DOMAIN Lines(k) /\ Lines(k)[e].target = t
      BY <2>2, <3>1 DEF LinesOn
    <3>3. s.buffer[t] = After(k, Lines(k)[e], balance[t]) /\ s.buffer[t] # NoWrite
      BY <2>2, <3>2, <1>0, <1>1, ReadyToCommit
    <3> QED
      BY <2>2, <3>1, <3>3
  <2> QED
    BY <2>1, <2>2
<1>7. balance' = [t \in Targets |->
        IF LinesOn(k, t) = {} THEN balance[t]
        ELSE After(k, Lines(k)[CHOOSE i \in LinesOn(k, t) : TRUE], balance[t])]
  BY <1>2, <1>6
<1>8. Contract!Apply(k)
  BY <1>1, <1>3, <1>4, <1>5, <1>7, SameCommands DEF Contract!Apply
<1> QED
  BY <1>3, <1>8 DEF Contract!Next

-----------------------------------------------------------------------------
\* The theorems.

LEMMA TransactionsInitially == Init => TransactionInv
<1> SUFFICES ASSUME Init PROVE TransactionInv
  OBVIOUS
<1>1. Rows
  <2>1. \A t \in Targets : Stock[t] \in Int
    BY StockCommandsAssumption
  <2> QED
    BY <2>1 DEF Init, Contract!Init, Rows, Balance
<1>2. owner \in [Locks -> Handlers \cup {Nobody}] /\ \A l \in Locks : owner[l] = Nobody
  BY DEF Init
<1>3. \A h \in Handlers : handler[h] = Idle
  BY DEF Init
<1>4. handler \in [Handlers -> HandlerState]
  BY IdleIsShaped DEF Init, Shaped
<1>5. ASSUME NEW h \in Handlers
      PROVE  /\ Shaped(handler[h])
             /\ Relies(h, handler[h])
             /\ ~Running(h) => \A l \in Locks : owner[l] # h
  <2>1. Relies(h, Idle)
    BY DEF Relies, Idle
  <2> QED
    BY <1>2, <1>3, <2>1, IdleIsShaped, StockTransactionsAssumption
<1> QED
  BY <1>1, <1>2, <1>4, <1>5 DEF TransactionInv

LEMMA TransactionStep == TransactionInv /\ [Next]_vars => TransactionInv'
<1> SUFFICES ASSUME TransactionInv, [Next]_vars PROVE TransactionInv'
  OBVIOUS
<1>1. CASE UNCHANGED vars
  <2>1. \A k \in Keys : Contract!PhaseAllows(k)' <=> Contract!PhaseAllows(k)
    BY <1>1 DEF vars, committed, Contract!PhaseAllows
  <2>2. Rows' /\ owner' = owner /\ handler' = handler
    BY <1>1 DEF vars, committed, TransactionInv, Rows
  <2>3. ASSUME NEW h \in Handlers
        PROVE  Relies(h, handler[h])'
    <3>1. PICK s : s = handler[h]
      OBVIOUS
    <3>2. Relies(h, s)'
      BY <1>1, <3>1, OwnerRelies DEF vars
    <3> QED
      BY <2>2, <3>1, <3>2
  <2> QED
    BY <2>2, <2>3 DEF TransactionInv, Running
<1>2. ASSUME NEW h \in Handlers, NEW k \in Keys, Begin(h, k)
      PROVE  TransactionInv'
  BY <1>2, BeginKeeps
<1>3. ASSUME NEW h \in Handlers, Proceed(h)
      PROVE  TransactionInv'
  BY <1>3, TakeKeyLockKeeps, CheckReplayKeeps, TakeHeadLockKeeps, TakeReservationLockKeeps,
     TakeBalanceLockKeeps, CommitKeeps DEF Proceed
<1>4. ASSUME NEW h \in Handlers, Crash(h) \/ DeadlockVictim(h)
      PROVE  TransactionInv'
  BY <1>4, RollbackKeeps DEF Crash, DeadlockVictim
<1> QED
  BY <1>1, <1>2, <1>3, <1>4 DEF Next

\* What a request has read under its locks stays true until it ends, whatever
\* the other requests do, retry, or die of.
THEOREM TransactionInvariant == Spec => []TransactionInv
  BY TransactionsInitially, TransactionStep, PTL DEF Spec

\* The transactions keep their types, and an idle connection holds no lock.
THEOREM StockTransactionsTypeCorrect == Spec => []TypeOK
<1>1. TransactionInv => TypeOK
  BY DEF TransactionInv, Rows, TypeOK, Shaped, Running
<1> QED
  BY <1>1, TransactionInvariant, PTL

\* No update of a balance is lost: what a request is about to write was computed
\* from the balance that is still there, and whose row it has locked.
THEOREM NoLostUpdateInvariant == Spec => []NoLostUpdate
<1>1. ASSUME TransactionInv, NEW h \in Handlers, NEW t \in Targets, handler[h].buffer[t] # NoWrite
      PROVE  /\ owner[<<"balance", t>>] = h
             /\ \E i \in 1..(handler[h].at - 1) :
                  /\ Lines(handler[h].key)[i].target = t
                  /\ handler[h].buffer[t] =
                       After(handler[h].key, Lines(handler[h].key)[i], balance[t])
  <2>0. PICK s : s = handler[h]
    OBVIOUS
  <2>1. Shaped(s) /\ Relies(h, s)
    BY <1>1, <2>0 DEF TransactionInv
  <2>2. PICK i \in DOMAIN Lines(s.key) : i < s.at /\ Lines(s.key)[i].target = t
    BY <1>1, <2>0, <2>1 DEF Shaped
  <2>3. s.step # "idle" /\ s.key \in Keys
    BY <1>1, <2>0, <2>1 DEF Shaped, Idle
  <2>4. owner[<<"balance", t>>] = h /\ s.buffer[t] = After(s.key, Lines(s.key)[i], balance[t])
    BY <2>1, <2>2, <2>3 DEF Relies, BalanceLock
  <2>5. i \in 1..(s.at - 1)
    BY <2>1, <2>2, <2>3, LinePositions DEF Shaped, HandlerState
  <2> QED
    BY <2>0, <2>2, <2>4, <2>5
<1>2. TransactionInv => NoLostUpdate
  BY <1>1 DEF NoLostUpdate
<1> QED
  BY <1>2, TransactionInvariant, PTL

\* The transactions implement the contract: what becomes visible is a sequence
\* of whole commands, each taking effect once, and within bounds, for every set
\* of commands, orders, stocks and connections.
THEOREM TransactionsImplementContract == Spec => ImplementsContract
<1>1. Init => Contract!Init
  BY DEF Init
<1>2. TransactionInv /\ [Next]_vars => [Contract!Next]_(Contract!vars)
  <2> SUFFICES ASSUME TransactionInv, [Next]_vars
               PROVE  Contract!Next \/ UNCHANGED committed
    BY DEF committed, Contract!vars
  <2>1. ASSUME NEW h \in Handlers, Proceed(h)
        PROVE  Contract!Next \/ UNCHANGED committed
    BY <2>1, CommitApplies
       DEF Proceed, TakeKeyLock, CheckReplay, TakeHeadLock, TakeReservationLock, TakeBalanceLock,
           Lock
  <2>2. ASSUME NEW h \in Handlers, Crash(h) \/ DeadlockVictim(h)
        PROVE  UNCHANGED committed
    BY <2>2 DEF Crash, DeadlockVictim, Rollback
  <2>3. ASSUME NEW h \in Handlers, NEW k \in Keys, Begin(h, k)
        PROVE  UNCHANGED committed
    BY <2>3 DEF Begin
  <2> QED
    BY <2>1, <2>2, <2>3 DEF Next, vars
<1> QED
  BY <1>1, <1>2, TransactionInvariant, PTL DEF Spec, ImplementsContract, Contract!Spec
=============================================================================
