-------------------------- MODULE BackOfficeProofs --------------------------
(***************************************************************************)
(* What the components around the conversations keep for every number of   *)
(* routes, attempts, images, requests, products, versions and managers:    *)
(* the theorems of AiGateway, ProductMedia, InstagramConnections, Catalog, *)
(* Configuration, InboundMessages and Pricing, each about the              *)
(* specification of its own component.                                     *)
(***************************************************************************)
EXTENDS BackOffice, FiniteSetTheorems, TLAPS

-----------------------------------------------------------------------------
\* AiGateway.

\* The calls the routes a run has left, and the tools it has run, account for.
Spent(s) == (s.route - 1) * GwAttempts + s.tools

\* What is true of a run between two steps.
RunOK(s) ==
  /\ s \in GwRun
  /\ s.step \in {"calling", "tools"} => s.route \in RouteIds
  /\ s.step \in {"new", "routing"} => s.effects = {} /\ s.hanging = {}
  /\ s.step \in {"calling", "tools"} =>
       s.hanging = {} /\ s.effects \subseteq {<<s.route, s.attempt>>} /\ (s.effects # {} => s.acted)
  /\ \A a, b \in s.effects \cup s.hanging : a = b
  /\ s.step = "tools" => s.asked > 0
  /\ s.step # "ended" => s.cost <= GwBudget
  /\ s.step \in {"new", "routing"} => s.calls <= Spent(s)
  /\ s.step = "calling" => s.calls < Spent(s) + s.attempt
  /\ s.step = "tools" => s.calls <= Spent(s) + s.attempt

LEMMA CallsOfRoutes ==
  ASSUME NEW p \in RouteIds
  PROVE  /\ (p - 1) * GwAttempts \in Nat
         /\ p * GwAttempts \in Nat
         /\ p * GwAttempts = (p - 1) * GwAttempts + GwAttempts
         /\ p * GwAttempts <= GwRoutes * GwAttempts
         /\ GwRoutes * GwAttempts \in Nat
  BY AiGatewayAssumption, SMT DEF RouteIds


LEMMA EndKeeps ==
  ASSUME NEW s \in GwRun, NEW o \in GwOutcome, \A a, b \in s.effects \cup s.hanging : a = b
  PROVE  RunOK(Ended(s, o))
<1> DEFINE n == Ended(s, o)
<1>1. n \in GwRun
  <2>1. "ended" \in GwStep
    BY DEF GwStep
  <2> QED
    BY <2>1, Zenon DEF GwRun, Ended
<1>2. n.step = "ended" /\ n.effects = s.effects /\ n.hanging = s.hanging
  BY DEF GwRun, Ended
<1> HIDE DEF n
<1>3. RunOK(n)
  BY <1>1, <1>2, Zenon DEF RunOK
<1> QED
  BY <1>3 DEF n

\* An attempt that failed, before its catch block.
Failing(s, mayHaveExecuted) ==
  /\ s \in GwRun
  /\ s.route \in RouteIds
  /\ s.calls <= Spent(s) + s.attempt
  /\ s.cost <= GwBudget
  /\ \A a, b \in s.effects \cup s.hanging : a = b
  /\ ~(s.acted \/ mayHaveExecuted) => s.effects = {} /\ s.hanging = {}

LEMMA FailureKeeps ==
  ASSUME NEW s, NEW may \in BOOLEAN, Failing(s, may)
  PROVE  RunOK(AfterFailure(s, may))
<1>0. /\ s \in GwRun /\ s.attempt \in 1..GwAttempts /\ s.route \in RouteIds
      /\ s.calls \in Nat /\ s.tools \in Nat /\ s.cost <= GwBudget
      /\ s.calls <= Spent(s) + s.attempt
  BY DEF Failing, GwRun, CallLimit
<1>1. CASE s.acted \/ may
  <2>1. AfterFailure(s, may) = Ended(s, "handoff")
    BY <1>1 DEF AfterFailure
  <2> QED
    BY <1>0, <2>1, EndKeeps DEF GwOutcome, Failing
<1>2. CASE ~(s.acted \/ may) /\ s.attempt < GwAttempts
  <2> DEFINE n == [s EXCEPT !.step = "calling", !.attempt = @ + 1, !.asked = 0, !.acted = FALSE]
  <2>1. AfterFailure(s, may) = n
    BY <1>2 DEF AfterFailure
  <2>2. n \in GwRun
    <3>1. s.attempt + 1 \in 1..GwAttempts /\ 0 \in 0..GwBatch /\ "calling" \in GwStep
      BY <1>0, <1>2, AiGatewayAssumption DEF GwStep
    <3> QED
      BY <1>0, <3>1, Zenon DEF GwRun
  <2>3. /\ n.step = "calling" /\ n.attempt = s.attempt + 1 /\ n.route = s.route
        /\ n.calls = s.calls /\ n.tools = s.tools /\ n.cost = s.cost
        /\ n.effects = s.effects /\ n.hanging = s.hanging
    BY <1>0 DEF GwRun
  <2> HIDE DEF n
  <2>4. s.effects = {} /\ s.hanging = {}
    BY <1>2 DEF Failing
  <2>5. Spent(n) = Spent(s) /\ Spent(s) \in Nat
    BY <2>3, <1>0, CallsOfRoutes DEF Spent
  <2>6. n.calls < Spent(n) + n.attempt
    BY <2>3, <2>5, <1>0, SMT
  <2>7. RunOK(n)
    BY <2>2, <2>3, <2>4, <2>6, <1>0, Zenon DEF RunOK
  <2> QED
    BY <2>1, <2>7
<1>3. CASE ~(s.acted \/ may) /\ ~(s.attempt < GwAttempts)
  <2> DEFINE n == [s EXCEPT !.step = "routing", !.route = @ + 1, !.asked = 0]
  <2>1. AfterFailure(s, may) = n
    BY <1>3 DEF AfterFailure
  <2>2. n \in GwRun
    <3>1. s.route + 1 \in 1..(GwRoutes + 1) /\ 0 \in 0..GwBatch /\ "routing" \in GwStep
      BY <1>0, AiGatewayAssumption DEF GwStep, RouteIds
    <3> QED
      BY <1>0, <3>1, Zenon DEF GwRun
  <2>3. /\ n.step = "routing" /\ n.route = s.route + 1
        /\ n.calls = s.calls /\ n.tools = s.tools /\ n.cost = s.cost
        /\ n.effects = s.effects /\ n.hanging = s.hanging
    BY <1>0 DEF GwRun
  <2> HIDE DEF n
  <2>4. s.effects = {} /\ s.hanging = {}
    BY <1>3 DEF Failing
  <2>5. s.attempt = GwAttempts
    BY <1>0, <1>3, AiGatewayAssumption
  <2>6. Spent(n) = Spent(s) + GwAttempts
    <3>1. n.route - 1 = s.route /\ s.route \in Int
      BY <2>3, <1>0, AiGatewayAssumption DEF RouteIds
    <3> QED
      BY <3>1, <2>3, <1>0, CallsOfRoutes, AiGatewayAssumption DEF Spent
  <2>7. n.calls <= Spent(n)
    BY <2>3, <2>5, <2>6, <1>0
  <2>8. RunOK(n)
    BY <2>2, <2>3, <2>4, <2>7, <1>0, Zenon DEF RunOK
  <2> QED
    BY <2>1, <2>8
<1> QED
  BY <1>1, <1>2, <1>3

Circuits == [RouteIds -> [failures : 0..GwThreshold, state : {"closed", "open", "cooled"}]]

GatewayInv ==
  /\ gwRun \in [GwRuns -> GwRun]
  /\ circuit \in Circuits
  /\ \A r \in GwRuns : RunOK(gwRun[r])

LEMMA RunReplaced ==
  ASSUME GatewayInv, NEW r \in GwRuns, NEW n, RunOK(n),
         gwRun' = [gwRun EXCEPT ![r] = n], circuit' \in Circuits
  PROVE  GatewayInv'
  BY DEF GatewayInv, RunOK

LEMMA CircuitKeeps ==
  ASSUME GatewayInv, NEW r \in GwRuns, gwRun[r].route \in RouteIds,
         ClearFailures(r) \/ CountFailure(r)
  PROVE  circuit' \in Circuits
<1> DEFINE p == gwRun[r].route
<1>1. circuit[p] \in [failures : 0..GwThreshold, state : {"closed", "open", "cooled"}]
  BY DEF GatewayInv, Circuits
<1>2. CASE ClearFailures(r)
  BY <1>2, AiGatewayAssumption DEF GatewayInv, Circuits, ClearFailures, Closed
<1>3. CASE CountFailure(r)
  BY <1>1, <1>3, AiGatewayAssumption DEF GatewayInv, Circuits, CountFailure
<1> QED
  BY <1>2, <1>3

\* The run after a call that the provider answered.
LEMMA CallIsCounted ==
  ASSUME NEW s, RunOK(s), s.step = "calling", NEW cost \in 0..2
  PROVE  LET a == [s EXCEPT !.calls = @ + 1, !.cost = @ + cost]
         IN /\ a \in GwRun
            /\ a.step = "calling" /\ a.route = s.route /\ a.attempt = s.attempt
            /\ a.calls = s.calls + 1 /\ a.cost = s.cost + cost /\ a.tools = s.tools
            /\ a.acted = s.acted /\ a.effects = s.effects /\ a.hanging = s.hanging
            /\ a.calls <= Spent(a) + a.attempt
<1> DEFINE a == [s EXCEPT !.calls = @ + 1, !.cost = @ + cost]
<1>1. /\ s \in GwRun /\ s.attempt \in 1..GwAttempts /\ s.route \in RouteIds
      /\ s.calls \in Nat /\ s.tools \in 0..GwTools /\ s.cost \in Nat /\ s.cost <= GwBudget
      /\ s.calls < Spent(s) + s.attempt
  BY DEF RunOK, GwRun, CallLimit
<1>2. Spent(s) \in Nat /\ Spent(s) + s.attempt <= CallLimit /\ CallLimit \in Nat
  <2>1. PICK x \in Nat : x = (s.route - 1) * GwAttempts
    BY <1>1, CallsOfRoutes
  <2>2. PICK y \in Nat : y = GwRoutes * GwAttempts
    BY <1>1, CallsOfRoutes
  <2>3. x + GwAttempts <= y
    BY <2>1, <2>2, <1>1, CallsOfRoutes, AiGatewayAssumption
  <2>4. Spent(s) = x + s.tools /\ CallLimit = y + GwTools
    BY <2>1, <2>2 DEF Spent, CallLimit
  <2> QED
    BY <2>3, <2>4, <1>1, AiGatewayAssumption
<1>3. s.calls + 1 \in 0..CallLimit /\ s.cost + cost \in 0..(GwBudget + 2)
  BY <1>1, <1>2, AiGatewayAssumption
<1>4. a \in GwRun
  BY <1>1, <1>3, Zenon DEF GwRun
<1>5. /\ a.step = s.step /\ a.route = s.route /\ a.attempt = s.attempt
      /\ a.calls = s.calls + 1 /\ a.cost = s.cost + cost /\ a.tools = s.tools
      /\ a.acted = s.acted /\ a.effects = s.effects /\ a.hanging = s.hanging
  BY <1>1 DEF GwRun
<1> HIDE DEF a
<1>6. Spent(a) = Spent(s)
  BY <1>5 DEF Spent
<1>7. a.calls <= Spent(a) + a.attempt
  BY <1>1, <1>2, <1>5, <1>6
<1> QED
  BY <1>4, <1>5, <1>7 DEF a

LEMMA GatewayInitially == GwInit => GatewayInv
<1> SUFFICES ASSUME GwInit PROVE GatewayInv
  OBVIOUS
<1>1. NewRun \in GwRun
  <2>1. 1 \in 1..(GwRoutes + 1) /\ 1 \in 1..GwAttempts /\ 0 \in 0..CallLimit /\ 0 \in 0..GwTools
        /\ 0 \in 0..GwBatch /\ 0 \in 0..(GwBudget + 2)
    <3>1. GwRoutes * GwAttempts \in Nat
      BY AiGatewayAssumption
    <3> QED
      BY <3>1, AiGatewayAssumption DEF CallLimit
  <2> QED
    BY <2>1 DEF NewRun, GwRun, GwStep, GwOutcome
<1>2. NewRun.calls <= Spent(NewRun)
  BY AiGatewayAssumption DEF NewRun, Spent
<1>3. RunOK(NewRun)
  BY <1>1, <1>2, AiGatewayAssumption DEF RunOK, NewRun
<1>4. circuit \in Circuits
  BY AiGatewayAssumption DEF GwInit, Circuits, Closed
<1> QED
  BY <1>1, <1>3, <1>4 DEF GwInit, GatewayInv

\* What a step of run r leaves, when it changes the run only.
LEMMA StepsOfRouting ==
  ASSUME GatewayInv, NEW r \in GwRuns, 
         StartRun(r) \/ RejectRun(r) \/ SkipRoute(r) \/ EnterRoute(r) \/ NoRouteLeft(r)
  PROVE  GatewayInv'
<1> DEFINE s == gwRun[r]
<1>0. RunOK(s) /\ s \in GwRun /\ circuit \in Circuits
  BY DEF GatewayInv
<1>00. /\ s.route \in 1..(GwRoutes + 1) /\ s.attempt \in 1..GwAttempts
       /\ s.calls \in Nat /\ s.tools \in Nat /\ s.cost \in Nat
  BY <1>0 DEF GwRun, CallLimit
<1>1. CASE StartRun(r)
  <2> DEFINE n == [s EXCEPT !.step = "routing"]
  <2>1. n \in GwRun
    <3>1. "routing" \in GwStep
      BY DEF GwStep
    <3> QED
      BY <1>0, <3>1, Zenon DEF GwRun
  <2>2. /\ n.step = "routing" /\ n.route = s.route
        /\ n.calls = s.calls /\ n.tools = s.tools /\ n.cost = s.cost
        /\ n.effects = s.effects /\ n.hanging = s.hanging
    BY <1>0 DEF GwRun
  <2>3. gwRun' = [gwRun EXCEPT ![r] = n] /\ circuit' = circuit /\ s.step = "new"
    BY <1>1 DEF StartRun
  <2> HIDE DEF n, s
  <2>4. RunOK(n)
    BY <1>0, <2>1, <2>2, <2>3, Zenon DEF RunOK, Spent
  <2> QED
    BY <1>0, <2>3, <2>4, RunReplaced
<1>2. CASE RejectRun(r)
  <2>1. RunOK(Ended(s, "rejected"))
    BY <1>0, EndKeeps DEF RunOK, GwOutcome
  <2> QED
    BY <1>0, <1>2, <2>1, RunReplaced DEF RejectRun
<1>3. CASE NoRouteLeft(r)
  <2>1. RunOK(Ended(s, "handoff"))
    BY <1>0, EndKeeps DEF RunOK, GwOutcome
  <2> QED
    BY <1>0, <1>3, <2>1, RunReplaced DEF NoRouteLeft
<1>4. CASE SkipRoute(r)
  <2> DEFINE n == [s EXCEPT !.route = @ + 1]
  <2>0. s.step = "routing" /\ s.route \in RouteIds
    BY <1>4 DEF SkipRoute, Choosing
  <2>1. n \in GwRun
    <3>1. s.route + 1 \in 1..(GwRoutes + 1)
      BY <2>0, AiGatewayAssumption DEF RouteIds
    <3> QED
      BY <1>0, <3>1, Zenon DEF GwRun
  <2>2. /\ n.step = s.step /\ n.route = s.route + 1
        /\ n.calls = s.calls /\ n.tools = s.tools /\ n.cost = s.cost
        /\ n.effects = s.effects /\ n.hanging = s.hanging
    BY <1>0 DEF GwRun
  <2>3. gwRun' = [gwRun EXCEPT ![r] = n] /\ circuit' = circuit
    BY <1>4 DEF SkipRoute
  <2> HIDE DEF n, s
  <2>4. n.calls <= Spent(n)
    <3>1. n.route - 1 = s.route /\ s.route \in Int
      BY <2>2, <2>0, AiGatewayAssumption DEF RouteIds
    <3>2. Spent(n) = Spent(s) + GwAttempts /\ Spent(s) \in Nat
      BY <2>0, <2>2, <3>1, <1>00, CallsOfRoutes, AiGatewayAssumption DEF Spent
    <3>3. s.calls <= Spent(s)
      BY <1>0, <2>0 DEF RunOK
    <3> QED
      BY <3>2, <3>3, <2>2, <1>00, AiGatewayAssumption
  <2>5. RunOK(n)
    BY <1>0, <2>0, <2>1, <2>2, <2>4, Zenon DEF RunOK
  <2> QED
    BY <1>0, <2>3, <2>5, RunReplaced
<1>5. CASE EnterRoute(r)
  <2> DEFINE n == [s EXCEPT !.step = "calling", !.attempt = 1, !.acted = FALSE]
  <2>0. s.step = "routing" /\ s.route \in RouteIds
    BY <1>5 DEF EnterRoute, Choosing
  <2>1. n \in GwRun
    <3>1. "calling" \in GwStep /\ 1 \in 1..GwAttempts
      BY AiGatewayAssumption DEF GwStep
    <3> QED
      BY <1>0, <3>1, Zenon DEF GwRun
  <2>2. /\ n.step = "calling" /\ n.route = s.route /\ n.attempt = 1
        /\ n.calls = s.calls /\ n.tools = s.tools /\ n.cost = s.cost
        /\ n.effects = s.effects /\ n.hanging = s.hanging
    BY <1>0 DEF GwRun
  <2>3. gwRun' = [gwRun EXCEPT ![r] = n]
    BY <1>5 DEF EnterRoute
  <2>4. circuit' \in Circuits
    <3>1. circuit' = circuit \/ circuit' = [circuit EXCEPT ![s.route] = Closed]
      BY <1>5 DEF EnterRoute
    <3>2. Closed \in [failures : 0..GwThreshold, state : {"closed", "open", "cooled"}]
      BY AiGatewayAssumption DEF Closed
    <3> HIDE DEF s
    <3> QED
      BY <1>0, <3>1, <3>2, Zenon DEF Circuits
  <2> HIDE DEF n, s
  <2>5. n.calls < Spent(n) + n.attempt
    <3>1. s.calls <= Spent(s) /\ Spent(s) \in Nat
      BY <1>0, <2>0, <1>00, CallsOfRoutes DEF RunOK, Spent
    <3>2. Spent(n) = Spent(s)
      BY <2>2 DEF Spent
    <3> QED
      BY <3>1, <3>2, <2>2, <1>00
  <2>6. RunOK(n)
    BY <1>0, <2>0, <2>1, <2>2, <2>5, Zenon DEF RunOK
  <2> QED
    BY <2>3, <2>4, <2>6, RunReplaced
<1> QED
  BY <1>1, <1>2, <1>3, <1>4, <1>5

LEMMA StepsOfCalling ==
  ASSUME GatewayInv, NEW r \in GwRuns, NEW cost \in 0..2, NEW outcome \in {"completed", "handoff"},
         NEW k \in 0..GwBatch,
         \/ OverBudget(r) \/ CallFails(r) \/ AnswerOverBudget(r, cost) \/ AnswerInvalid(r, cost)
         \/ AnswerFinal(r, cost, outcome) \/ AnswerTools(r, cost, k)
  PROVE  GatewayInv'
<1> DEFINE s == gwRun[r]
           a == [s EXCEPT !.calls = @ + 1, !.cost = @ + cost]
<1>0. /\ RunOK(s) /\ s \in GwRun /\ circuit \in Circuits /\ s.step = "calling"
      /\ s.route \in RouteIds /\ s.cost \in Nat
  <2>1. RunOK(s) /\ s \in GwRun /\ circuit \in Circuits
    BY DEF GatewayInv
  <2>2. s.step = "calling"
    BY DEF OverBudget, CallFails, AnswerOverBudget, AnswerInvalid, AnswerFinal, AnswerTools,
           Calling
  <2> QED
    BY <2>1, <2>2 DEF RunOK, GwRun
<1>00. outcome \in GwOutcome /\ "handoff" \in GwOutcome
  BY DEF GwOutcome
<1>1. CASE OverBudget(r)
  <2>1. RunOK(Ended(s, "handoff"))
    BY <1>0, <1>00, EndKeeps DEF RunOK
  <2> QED
    BY <1>0, <1>1, <2>1, RunReplaced DEF OverBudget
<1>2. CASE CallFails(r)
  <2> DEFINE b == [s EXCEPT !.calls = @ + 1]
  <2>1. PICK z \in 0..2 : z = 0
    OBVIOUS
  <2>2. b = [s EXCEPT !.calls = @ + 1, !.cost = @ + z]
    <3>1. s.cost + z = s.cost
      BY <1>0, <2>1
    <3> QED
      BY <1>0, <3>1, Zenon DEF GwRun
  <2>3. Failing(b, FALSE)
    <3>1. /\ b \in GwRun
          /\ b.route = s.route /\ b.cost = s.cost + z /\ b.acted = s.acted
          /\ b.effects = s.effects /\ b.hanging = s.hanging
          /\ b.calls <= Spent(b) + b.attempt
      <4> DEFINE c == [s EXCEPT !.calls = @ + 1, !.cost = @ + z]
      <4>1. /\ c \in GwRun
            /\ c.route = s.route /\ c.cost = s.cost + z /\ c.acted = s.acted
            /\ c.effects = s.effects /\ c.hanging = s.hanging
            /\ c.calls <= Spent(c) + c.attempt
        BY <1>0, CallIsCounted
      <4>2. b = c
        BY <2>2
      <4> HIDE DEF b, c, s
      <4> QED
        BY <4>1, <4>2
    <3>2. s.cost + z = s.cost
      BY <1>0, <2>1
    <3> HIDE DEF b, s
    <3> QED
      BY <1>0, <3>1, <3>2, Zenon DEF Failing, RunOK
  <2>4. RunOK(AfterFailure(b, FALSE))
    BY <2>3, FailureKeeps
  <2>5. circuit' \in Circuits /\ gwRun' = [gwRun EXCEPT ![r] = AfterFailure(b, FALSE)]
    BY <1>0, <1>2, CircuitKeeps DEF CallFails, Fail
  <2> QED
    BY <2>4, <2>5, RunReplaced
<1>3. /\ a \in GwRun /\ a.step = "calling" /\ a.route = s.route /\ a.attempt = s.attempt
      /\ a.cost = s.cost + cost /\ a.acted = s.acted /\ a.effects = s.effects
      /\ a.hanging = s.hanging /\ a.calls <= Spent(a) + a.attempt /\ a.tools = s.tools
  BY <1>0, CallIsCounted
<1>4. a = Answered(r, cost)
  BY DEF Answered
<1>5. \A o \in GwOutcome : RunOK(Ended(a, o))
  <2> HIDE DEF a, s
  <2>1. \A x, y \in a.effects \cup a.hanging : x = y
    BY <1>0, <1>3 DEF RunOK
  <2> QED
    BY <1>3, <2>1, EndKeeps
<1>6. CASE AnswerOverBudget(r, cost)
  BY <1>0, <1>00, <1>4, <1>5, <1>6, RunReplaced DEF AnswerOverBudget
<1>7. CASE AnswerFinal(r, cost, outcome)
  <2>1. circuit' \in Circuits
    BY <1>0, <1>7, CircuitKeeps DEF AnswerFinal
  <2> QED
    BY <2>1, <1>00, <1>4, <1>5, <1>7, RunReplaced DEF AnswerFinal
<1>8. ASSUME Affordable(r, cost) PROVE RunOK(AfterFailure(a, FALSE)) /\ a.cost <= GwBudget
  <2>1. a.cost <= GwBudget
    BY <1>3, <1>8 DEF Affordable
  <2> HIDE DEF a, s
  <2>2. Failing(a, FALSE)
    BY <1>0, <1>3, <2>1, Zenon DEF Failing, RunOK
  <2> QED
    BY <2>1, <2>2, FailureKeeps
<1>9. CASE AnswerInvalid(r, cost)
  <2>1. circuit' \in Circuits /\ gwRun' = [gwRun EXCEPT ![r] = AfterFailure(a, FALSE)]
    BY <1>0, <1>4, <1>9, CircuitKeeps DEF AnswerInvalid, Fail
  <2> QED
    BY <1>8, <1>9, <2>1, RunReplaced DEF AnswerInvalid
<1>10. CASE AnswerTools(r, cost, k) /\ k = 0
  <2>1. circuit' \in Circuits /\ gwRun' = [gwRun EXCEPT ![r] = AfterFailure(a, FALSE)]
    BY <1>0, <1>4, <1>10, CircuitKeeps DEF AnswerTools, Fail
  <2> QED
    BY <1>8, <1>10, <2>1, RunReplaced DEF AnswerTools
<1>11. CASE AnswerTools(r, cost, k) /\ k # 0
  <2> DEFINE n == [a EXCEPT !.step = "tools", !.asked = k]
  <2>1. n \in GwRun
    <3>1. "tools" \in GwStep
      BY DEF GwStep
    <3> HIDE DEF a
    <3> QED
      BY <1>3, <3>1, Zenon DEF GwRun
  <2>2. /\ n.step = "tools" /\ n.asked = k /\ n.route = a.route /\ n.attempt = a.attempt
        /\ n.calls = a.calls /\ n.tools = a.tools /\ n.cost = a.cost /\ n.acted = a.acted
        /\ n.effects = a.effects /\ n.hanging = a.hanging
    <3> HIDE DEF a
    <3> QED
      BY <1>3 DEF GwRun
  <2>3. gwRun' = [gwRun EXCEPT ![r] = n] /\ circuit' = circuit
    BY <1>4, <1>11 DEF AnswerTools
  <2>4. n.asked > 0
    BY <1>11, <2>2
  <2>5. n.cost <= GwBudget
    BY <1>8, <1>11, <2>2 DEF AnswerTools
  <2> HIDE DEF n, a, s
  <2>6. n.calls <= Spent(n) + n.attempt
    BY <1>3, <2>2, Zenon DEF Spent
  <2>7. RunOK(n)
    BY <1>0, <1>3, <2>1, <2>2, <2>4, <2>5, <2>6, Zenon DEF RunOK
  <2> QED
    BY <1>0, <2>3, <2>7, RunReplaced
<1> QED
  BY <1>1, <1>2, <1>6, <1>7, <1>9, <1>10, <1>11

LEMMA StepsOfTools ==
  ASSUME GatewayInv, NEW r \in GwRuns, NEW kind \in {"read", "command"},
         \/ TooManyTools(r) \/ ToolSucceeds(r, kind) \/ ToolRejected(r) \/ ReadFails(r)
         \/ CommandFails(r) \/ LateEffect(r)
  PROVE  GatewayInv'
<1> DEFINE s == gwRun[r]
           at == AttemptOf(r)
           t == [s EXCEPT !.tools = @ + 1]
           e == [s EXCEPT !.tools = @ + 1, !.effects = @ \cup {at}]
           h == [s EXCEPT !.tools = @ + 1, !.hanging = @ \cup {at}]
<1>0. RunOK(s) /\ s \in GwRun /\ circuit \in Circuits
  BY DEF GatewayInv
<1>00. /\ s.route \in 1..(GwRoutes + 1) /\ s.attempt \in 1..GwAttempts
       /\ at = <<s.route, s.attempt>>
       /\ s.calls \in Nat /\ s.tools \in 0..GwTools /\ s.cost \in Nat /\ s.asked \in 0..GwBatch
  BY <1>0 DEF GwRun, CallLimit, AttemptOf
<1>1. CASE LateEffect(r)
  <2>1. PICK b \in s.hanging :
          /\ gwRun' = [gwRun EXCEPT ![r].hanging = @ \ {b}, ![r].effects = @ \cup {b}]
          /\ circuit' = circuit
    BY <1>1 DEF LateEffect
  <2> DEFINE n == [s EXCEPT !.hanging = @ \ {b}, !.effects = @ \cup {b}]
  <2>2. n \in GwRun
    <3>1. s.hanging \ {b} \in SUBSET AttemptIds /\ s.effects \cup {b} \in SUBSET AttemptIds
      BY <1>0 DEF GwRun
    <3> QED
      BY <1>0, <3>1, Zenon DEF GwRun
  <2>3. /\ n.step = s.step /\ n.effects = s.effects \cup {b} /\ n.hanging = s.hanging \ {b}
        /\ n.calls = s.calls /\ n.tools = s.tools /\ n.cost = s.cost
    BY <1>0 DEF GwRun
  <2>4. gwRun' = [gwRun EXCEPT ![r] = n] /\ circuit' = circuit
    BY <2>1
  <2> HIDE DEF n, s
  <2>5. s.step = "ended"
    BY <1>0, <2>1 DEF RunOK, GwRun, GwStep
  <2>6. \A x, y \in n.effects \cup n.hanging : x = y
    BY <1>0, <2>1, <2>3 DEF RunOK
  <2>7. RunOK(n)
    BY <2>2, <2>3, <2>5, <2>6, Zenon DEF RunOK
  <2> QED
    BY <1>0, <2>4, <2>7, RunReplaced
<1> SUFFICES ASSUME ~LateEffect(r) PROVE GatewayInv'
  BY <1>1
<1>2. s.step = "tools"
  BY DEF TooManyTools, ToolSucceeds, ToolRejected, ReadFails, CommandFails, RunningTool
<1>3. /\ s.route \in RouteIds /\ s.asked > 0 /\ s.cost <= GwBudget
      /\ s.hanging = {} /\ s.effects \subseteq {at} /\ (s.effects # {} => s.acted)
      /\ s.calls <= Spent(s) + s.attempt /\ Spent(s) \in Nat
  <2>1. s.route \in RouteIds
    BY <1>0, <1>2 DEF RunOK
  <2>2. Spent(s) \in Nat
    BY <2>1, <1>00, CallsOfRoutes DEF Spent
  <2> HIDE DEF s, at
  <2> QED
    BY <2>1, <2>2, <1>0, <1>2, <1>00 DEF RunOK
<1>4. at \in AttemptIds
  BY <1>00, <1>3 DEF AttemptIds
<1>5. CASE TooManyTools(r)
  <2>1. Failing(s, FALSE)
    <3> HIDE DEF s
    <3> QED
      BY <1>0, <1>3 DEF Failing, RunOK
  <2>2. circuit' \in Circuits /\ gwRun' = [gwRun EXCEPT ![r] = AfterFailure(s, FALSE)]
    BY <1>3, <1>5, CircuitKeeps DEF TooManyTools, Fail
  <2> QED
    BY <2>1, <2>2, FailureKeeps, RunReplaced
<1>6. ASSUME s.tools < GwTools
      PROVE  /\ s.tools + 1 \in 0..GwTools
             /\ \A x \in GwRun : x.route = s.route /\ x.attempt = s.attempt /\ x.calls = s.calls
                                 /\ x.tools = s.tools + 1
                                   => x.calls < Spent(x) + x.attempt
  <2>1. s.tools + 1 \in 0..GwTools
    BY <1>6, <1>00, AiGatewayAssumption
  <2>2. ASSUME NEW x \in GwRun, x.route = s.route, x.attempt = s.attempt, x.calls = s.calls,
               x.tools = s.tools + 1
        PROVE  x.calls < Spent(x) + x.attempt
    <3>1. PICK y \in Nat : y = (s.route - 1) * GwAttempts
      BY <1>3, CallsOfRoutes
    <3>2. Spent(x) = y + (s.tools + 1) /\ Spent(s) = y + s.tools
      BY <2>2, <3>1 DEF Spent
    <3> HIDE DEF s
    <3> QED
      BY <2>2, <3>1, <3>2, <1>00, <1>3
  <2> QED
    BY <2>1, <2>2
<1>7. CASE ToolSucceeds(r, kind)
  <2> DEFINE more == s.asked > 1
             command == kind = "command"
             n == [s EXCEPT !.tools = @ + 1, !.asked = @ - 1,
                            !.step = IF more THEN "tools" ELSE "calling",
                            !.acted = @ \/ command,
                            !.effects = IF command THEN @ \cup {at} ELSE @]
  <2>0. s.tools < GwTools /\ s.acted \in BOOLEAN /\ s.effects \in SUBSET AttemptIds
    BY <1>0, <1>7 DEF ToolSucceeds, RunningTool, GwRun
  <2>1. n \in GwRun
    <3>1. /\ s.tools + 1 \in 0..GwTools /\ s.asked - 1 \in 0..GwBatch
      BY <2>0, <1>6, <1>00, <1>3, AiGatewayAssumption
    <3>2. (IF more THEN "tools" ELSE "calling") \in GwStep
      BY DEF GwStep
    <3>3. (s.acted \/ command) \in BOOLEAN
      OBVIOUS
    <3>4. (IF command THEN s.effects \cup {at} ELSE s.effects) \in SUBSET AttemptIds
      BY <2>0, <1>4
    <3> HIDE DEF more, command, at
    <3> QED
      BY <1>0, <3>1, <3>2, <3>3, <3>4, Zenon DEF GwRun
  <2>2. /\ n.step = (IF more THEN "tools" ELSE "calling") /\ n.asked = s.asked - 1
        /\ n.route = s.route /\ n.attempt = s.attempt
        /\ n.calls = s.calls /\ n.tools = s.tools + 1 /\ n.cost = s.cost
        /\ n.acted = (s.acted \/ command)
        /\ n.effects = (IF command THEN s.effects \cup {at} ELSE s.effects)
        /\ n.hanging = s.hanging
    <3> HIDE DEF more, command, at
    <3> QED
      BY <1>0, Zenon DEF GwRun
  <2>3. gwRun' = [gwRun EXCEPT ![r] = n] /\ circuit' = circuit
    BY <1>7 DEF ToolSucceeds, Traced
  <2> HIDE DEF n, s
  <2>4. n.calls < Spent(n) + n.attempt
    BY <2>0, <2>1, <2>2, <1>6
  <2>5. n.effects \subseteq {at} /\ n.hanging = {} /\ (n.effects # {} => n.acted)
    BY <2>0, <2>2, <1>3
  <2>6. n.step \in {"tools", "calling"} /\ (n.step = "tools" => n.asked > 0)
    BY <2>2, <1>00, <1>3
  <2>7. n.calls <= Spent(n) + n.attempt
    <3>1. n.attempt \in Nat /\ n.calls \in Nat /\ Spent(n) \in Nat
      BY <2>1, <2>2, <1>00, <1>3, CallsOfRoutes DEF GwRun, Spent
    <3> QED
      BY <3>1, <2>4
  <2>8. RunOK(n)
    <3>1. \A x, y \in n.effects \cup n.hanging : x = y
      BY <2>5
    <3>2. at = <<n.route, n.attempt>>
      BY <2>2, <1>00
    <3> HIDE DEF at
    <3> QED
      BY <2>1, <2>2, <2>4, <2>5, <2>6, <2>7, <3>1, <3>2, <1>3, Zenon DEF RunOK
  <2> QED
    BY <1>0, <2>3, <2>8, RunReplaced
<1>8. ASSUME s.tools < GwTools PROVE RunOK(AfterFailure(t, FALSE))
  <2>1. t \in GwRun
    <3> HIDE DEF s
    <3> QED
      BY <1>0, <1>6, <1>8, Zenon DEF GwRun
  <2>2. /\ t.route = s.route /\ t.attempt = s.attempt /\ t.calls = s.calls
        /\ t.tools = s.tools + 1 /\ t.cost = s.cost /\ t.acted = s.acted
        /\ t.effects = s.effects /\ t.hanging = s.hanging
    BY <1>0 DEF GwRun
  <2> HIDE DEF t, s
  <2>3. t.calls <= Spent(t) + t.attempt
    <3>1. t.attempt \in Nat /\ t.calls \in Nat /\ Spent(t) \in Nat
      BY <2>1, <2>2, <1>00, <1>3, CallsOfRoutes DEF GwRun, Spent
    <3> QED
      BY <3>1, <2>1, <2>2, <1>6, <1>8
  <2>4. Failing(t, FALSE)
    BY <2>1, <2>2, <2>3, <1>3 DEF Failing
  <2> QED
    BY <2>4, FailureKeeps
<1>9. CASE ToolRejected(r) \/ ReadFails(r)
  <2>1. circuit' \in Circuits /\ gwRun' = [gwRun EXCEPT ![r] = AfterFailure(t, FALSE)]
        /\ s.tools < GwTools
    BY <1>3, <1>9, CircuitKeeps DEF ToolRejected, ReadFails, Fail, Traced, RunningTool
  <2> QED
    BY <2>1, <1>8, RunReplaced
<1>10. ASSUME s.tools < GwTools
       PROVE  /\ RunOK(AfterFailure(t, TRUE))
              /\ RunOK(AfterFailure(e, TRUE))
              /\ RunOK(AfterFailure(h, TRUE))
  <2>1. /\ t \in GwRun /\ e \in GwRun /\ h \in GwRun
    <3>1. /\ s.effects \cup {at} \in SUBSET AttemptIds /\ s.hanging \cup {at} \in SUBSET AttemptIds
      BY <1>0, <1>4 DEF GwRun
    <3> HIDE DEF s, at
    <3> QED
      BY <1>0, <3>1, <1>6, <1>10, Zenon DEF GwRun
  <2>2. /\ t.effects = s.effects /\ t.hanging = s.hanging
        /\ e.effects = s.effects \cup {at} /\ e.hanging = s.hanging
        /\ h.effects = s.effects /\ h.hanging = s.hanging \cup {at}
    BY <1>0 DEF GwRun
  <2>3. \A x \in {t, e, h} : AfterFailure(x, TRUE) = Ended(x, "handoff")
    BY DEF AfterFailure
  <2> HIDE DEF t, e, h, s, at
  <2>4. \A z \in {t, e, h} : \A x, y \in z.effects \cup z.hanging : x = y
    BY <2>2, <1>3
  <2>5. \A x \in {t, e, h} : RunOK(Ended(x, "handoff"))
    BY <2>1, <2>4, EndKeeps DEF GwOutcome
  <2> QED
    BY <2>3, <2>5
<1>11. CASE CommandFails(r)
  <2>1. /\ \/ Fail(r, t, TRUE) \/ Fail(r, e, TRUE) \/ Fail(r, h, TRUE)
        /\ s.tools < GwTools
    BY <1>11 DEF CommandFails, Traced, RunningTool
  <2>2. circuit' \in Circuits
    BY <1>3, <2>1, CircuitKeeps DEF Fail
  <2> HIDE DEF t, e, h, s
  <2> QED
    BY <2>1, <2>2, <1>10, RunReplaced DEF Fail
<1> QED
  BY <1>2, <1>5, <1>7, <1>9, <1>11

LEMMA GatewayStep == GatewayInv /\ [GwNext]_gwVars => GatewayInv'
<1> SUFFICES ASSUME GatewayInv, [GwNext]_gwVars PROVE GatewayInv'
  OBVIOUS
<1>1. ASSUME NEW p \in RouteIds, CircuitCools(p) PROVE GatewayInv'
  <2>1. gwRun' = gwRun
    BY <1>1 DEF CircuitCools
  <2>2. circuit' \in Circuits
    BY <1>1 DEF CircuitCools, GatewayInv, Circuits
  <2> QED
    BY <2>1, <2>2 DEF GatewayInv
<1>2. CASE UNCHANGED gwVars
  BY <1>2 DEF gwVars, GatewayInv
<1>3. ASSUME NEW r \in GwRuns,
             \/ StartRun(r) \/ RejectRun(r) \/ SkipRoute(r) \/ EnterRoute(r) \/ NoRouteLeft(r)
      PROVE  GatewayInv'
  BY <1>3, StepsOfRouting
<1>4. ASSUME NEW r \in GwRuns,
             \/ OverBudget(r) \/ CallFails(r)
             \/ \E cost \in 0..2 :
                  \/ AnswerOverBudget(r, cost) \/ AnswerInvalid(r, cost)
                  \/ \E outcome \in {"completed", "handoff"} : AnswerFinal(r, cost, outcome)
                  \/ \E n \in 0..GwBatch : AnswerTools(r, cost, n)
      PROVE  GatewayInv'
  <2>1. 0 \in 0..2 /\ "handoff" \in {"completed", "handoff"} /\ 0 \in 0..GwBatch
    BY AiGatewayAssumption
  <2> QED
    BY <1>4, <2>1, StepsOfCalling
<1>5. ASSUME NEW r \in GwRuns,
             \/ TooManyTools(r) \/ ToolRejected(r) \/ ReadFails(r) \/ CommandFails(r)
             \/ LateEffect(r)
             \/ \E kind \in {"read", "command"} : ToolSucceeds(r, kind)
      PROVE  GatewayInv'
  <2>1. "read" \in {"read", "command"}
    OBVIOUS
  <2> QED
    BY <1>5, <2>1, StepsOfTools
<1> QED
  BY <1>1, <1>2, <1>3, <1>4, <1>5 DEF GwNext

\* The strengthening: where a run of RoutedAiGateway.run stands, what it has spent up to
\* there, and which attempt its commands belong to.
THEOREM GatewayInvariant == GwSpec => []GatewayInv
  BY GatewayInitially, GatewayStep, PTL DEF GwSpec

\* Every run stays within its bounds, whatever fails: CallLimit calls of a provider,
\* GwTools tools, and one answer above its budget (GatewayTypeOK, of the nested loops
\* of RoutedAiGateway.run).
THEOREM GatewayTypeCorrect == GwSpec => []GatewayTypeOK
<1>1. GatewayInv => GatewayTypeOK
  BY DEF GatewayInv, GatewayTypeOK, Circuits
<1> QED
  BY <1>1, GatewayInvariant, PTL

\* The commands a run executed, or may still execute, belong to one attempt
\* (CommandsRunOnce): the catch block of RoutedAiGateway.run ends a run that has
\* acted, for any number of routes, attempts and tools.
THEOREM CommandsRunOnceInvariant == GwSpec => []CommandsRunOnce
<1>1. ASSUME NEW S, \A a, b \in S : a = b PROVE Cardinality(S) <= 1
  <2>1. CASE S = {}
    BY <2>1, FS_EmptySet
  <2>2. CASE S # {}
    <3>1. PICK a \in S : TRUE
      BY <2>2
    <3>2. S = {a}
      BY <1>1, <3>1
    <3> QED
      BY <3>2, FS_Singleton
  <2> QED
    BY <2>1, <2>2
<1>2. GatewayInv => CommandsRunOnce
  BY <1>1 DEF GatewayInv, RunOK, CommandsRunOnce
<1> QED
  BY <1>2, GatewayInvariant, PTL

-----------------------------------------------------------------------------
\* ProductMedia.

\* A request that will mark its image ready has seen the object, or stored it.
MediaInv ==
  /\ MediaTypeOK
  /\ ReadyIsStored
  /\ \A c \in Callers : \A m \in Images :
       CallAt(c, "keep", m) \/ CallAt(c, "mark", m) => m \in object

LEMMA MediaInitially == MediaInit => MediaInv
  BY DEF MediaInit, MediaInv, MediaTypeOK, MediaStatus, NoCall, ReadyIsStored, CallAt

LEMMA MediaStep == MediaInv /\ [MediaNext]_mediaVars => MediaInv'
<1> SUFFICES ASSUME MediaInv, [MediaNext]_mediaVars PROVE MediaInv'
  OBVIOUS
<1> USE DEF MediaInv, MediaTypeOK, MediaStatus, NoCall, ReadyIsStored, CallAt, Then, Returns
<1>1. ASSUME NEW c \in Callers, NEW m \in Images, BeginUpload(c, m) PROVE MediaInv'
  BY <1>1 DEF BeginUpload
<1>2. ASSUME NEW c \in Callers, NEW m \in Images, Put(c, m) PROVE MediaInv'
  BY <1>2 DEF Put
<1>3. ASSUME NEW c \in Callers, NEW m \in Images, PutFails(c, m) PROVE MediaInv'
  BY <1>3 DEF PutFails
<1>4. ASSUME NEW c \in Callers, NEW m \in Images, Keep(c, m) PROVE MediaInv'
  <2>1. /\ CallAt(c, "keep", m) /\ UNCHANGED object
        /\ \/ media' = [media EXCEPT ![m] = "ready"] /\ Returns(c)
           \/ Then(c, "fail", m) /\ UNCHANGED media
    BY <1>4 DEF Keep
  <2>2. CASE media' = [media EXCEPT ![m] = "ready"] /\ Returns(c)
    BY <2>1, <2>2
  <2>3. CASE Then(c, "fail", m) /\ UNCHANGED media
    BY <2>1, <2>3
  <2> QED
    BY <2>1, <2>2, <2>3
<1>5. ASSUME NEW c \in Callers, NEW m \in Images, BeginComplete(c, m) PROVE MediaInv'
  BY <1>5 DEF BeginComplete
<1>6. ASSUME NEW c \in Callers, NEW m \in Images, LookUp(c, m) PROVE MediaInv'
  <2>1. CASE m \in object
    <3>1. /\ call' = [call EXCEPT ![c] = [step |-> "mark", image |-> {m}]]
          /\ media' = media /\ object' = object
      BY <1>6, <2>1 DEF LookUp
    <3> QED
      BY <2>1, <3>1
  <2>2. CASE m \notin object
    <3>1. call' = [call EXCEPT ![c] = NoCall] /\ media' = media /\ object' = object
      BY <1>6, <2>2 DEF LookUp
    <3> QED
      BY <3>1
  <2> QED
    BY <2>1, <2>2
<1>7. ASSUME NEW c \in Callers, NEW m \in Images, Mark(c, m) PROVE MediaInv'
  BY <1>7 DEF Mark
<1>8. ASSUME NEW c \in Callers, NEW m \in Images, MarkFailed(c, m) PROVE MediaInv'
  BY <1>8 DEF MarkFailed
<1>9. ASSUME NEW m \in Images, GiveTicket(m) PROVE MediaInv'
  BY <1>9 DEF GiveTicket
<1>10. ASSUME NEW m \in Images, ClientPuts(m) PROVE MediaInv'
  BY <1>10 DEF ClientPuts
<1>11. ASSUME NEW c \in Callers, Crash(c) PROVE MediaInv'
  BY <1>11 DEF Crash
<1>12. CASE UNCHANGED mediaVars
  BY <1>12 DEF mediaVars
<1> QED
  BY <1>1, <1>2, <1>3, <1>4, <1>5, <1>6, <1>7, <1>8, <1>9, <1>10, <1>11, <1>12
     DEF MediaNext

\* An image offered for download is in the object store, for any number of images
\* and of overlapping uploads and completions (ReadyIsStored): upload and complete
\* in product-media.service.ts mark a row only after put or head has returned.
THEOREM ReadyIsStoredInvariant == MediaSpec => []ReadyIsStored
<1>1. MediaInv => ReadyIsStored
  BY DEF MediaInv
<1> QED
  BY <1>1, MediaInitially, MediaStep, PTL DEF MediaSpec

-----------------------------------------------------------------------------
\* InstagramConnections.

ConnectionsInv ==
  /\ ConnectionsTypeOK
  /\ \A r \in Requests :
       /\ request[r].step # "idle" =>
            request[r].tenant \in Tenants /\ request[r].key \in Credentials
       /\ request[r].step \in {"subscribe", "save"} => request[r].key \in accepted
       /\ request[r].step = "save" => request[r].key.account \in subscribed
  /\ ConnectionsAreLive

LEMMA ConnectionsInitially == ConnectionsInit => ConnectionsInv
  BY DEF ConnectionsInit, ConnectionsInv, ConnectionsTypeOK, Idle, ConnectionsAreLive

LEMMA ConnectionsStep ==
  ConnectionsInv /\ [ConnectionsNext]_connectionVars => ConnectionsInv'
<1> SUFFICES ASSUME ConnectionsInv, [ConnectionsNext]_connectionVars PROVE ConnectionsInv'
  OBVIOUS
<1> USE DEF ConnectionsInv, ConnectionsTypeOK, ConnectionsAreLive, Idle, Moves, Taken
<1>1. ASSUME NEW r \in Requests, NEW t \in Tenants, NEW key \in Credentials,
             Connect(r, t, key) PROVE ConnectionsInv'
  BY <1>1 DEF Connect
<1>2. ASSUME NEW r \in Requests, Validate(r) PROVE ConnectionsInv'
  BY <1>2 DEF Validate
<1>3. ASSUME NEW r \in Requests, Subscribe(r) PROVE ConnectionsInv'
  <2>1. request[r].key.account \in Accounts
    BY <1>3 DEF Subscribe, Credentials
  <2> QED
    BY <1>3, <2>1 DEF Subscribe
<1>4. ASSUME NEW r \in Requests, GiveUp(r) PROVE ConnectionsInv'
  BY <1>4 DEF GiveUp
<1>5. ASSUME NEW r \in Requests, Save(r) PROVE ConnectionsInv'
  BY <1>5 DEF Save
<1>6. ASSUME NEW t \in Tenants, Disconnect(t) PROVE ConnectionsInv'
  BY <1>6 DEF Disconnect
<1>7. ASSUME NEW token \in Tokens, Revoke(token) PROVE ConnectionsInv'
  BY <1>7 DEF Revoke
<1>8. CASE UNCHANGED connectionVars
  BY <1>8 DEF connectionVars
<1> QED
  BY <1>1, <1>2, <1>3, <1>4, <1>5, <1>6, <1>7, <1>8 DEF ConnectionsNext

\* A stored connection was confirmed by Meta, its account is subscribed, and no
\* account delivers to two tenants (ConnectionsAreLive), for any number of tenants,
\* accounts and overlapping requests of instagram-connection.service.ts.
THEOREM ConnectionsAreLiveInvariant == ConnectionsSpec => []ConnectionsAreLive
<1>1. ConnectionsInv => ConnectionsAreLive
  BY DEF ConnectionsInv
<1> QED
  BY <1>1, ConnectionsInitially, ConnectionsStep, PTL DEF ConnectionsSpec

-----------------------------------------------------------------------------
\* Catalog.

EditorRecord ==
  [step : EditorStep, command : Commands, p : Product, schema : SchemaVersions,
   definitions : SchemaVersions]

\* What a request has read stays true of its product until the version moves.
RequestOK(r, entry) ==
  /\ r \in EditorRecord
  /\ r.step = "variants" => r.command = "publish"
  /\ r.step = "write" /\ r.command # "restore" => r.definitions > 0
  /\ r.step # "idle" /\ r.command \in {"update", "updateAndPublish"} => r.p.status # "absent"
  /\ r.step # "idle" /\ r.command = "publish" =>
       /\ r.p.version <= entry.version
       /\ r.p.version = entry.version =>
            /\ r.p.fits = entry.fits
            /\ r.step # "variants" => r.p.variants = entry.variants

Explains(history, entry) ==
  /\ Len(history) = entry.version
  /\ \A v \in 1..Len(history) : history[v].version = v
  /\ entry.version > 0 => history[entry.version] = entry

CatalogInv ==
  /\ type \in [version : 1..MaxSchemaVersion, definitions : 1..MaxSchemaVersion,
               active : BOOLEAN]
  /\ product \in [Products -> Product]
  /\ revision \in [Products -> Seq(Product)]
  /\ editor \in [Editors -> [Products -> EditorRecord]]
  /\ overtaken \subseteq Products
  /\ \A p \in Products : product[p].status = "absent" <=> product[p].version = 0
  /\ \A p \in Products : Explains(revision[p], product[p])
  /\ PublishedWasValid
  /\ \A e \in Editors, p \in Products : RequestOK(editor[e][p], product[p])

LEMMA IdleIsOK ==
  ASSUME NEW entry \in Product PROVE RequestOK(IdleEditor, entry)
<1>1. NoProduct \in Product
  BY CatalogAssumption DEF NoProduct, Product, ProductStatus, SchemaVersions
<1> QED
  BY <1>1, CatalogAssumption
     DEF RequestOK, IdleEditor, EditorRecord, EditorStep, Commands, SchemaVersions

LEMMA CatalogInitially == CatalogInit => CatalogInv
<1> SUFFICES ASSUME CatalogInit PROVE CatalogInv
  OBVIOUS
<1>1. NoProduct \in Product
  BY CatalogAssumption DEF NoProduct, Product, ProductStatus, SchemaVersions
<1>2. RequestOK(IdleEditor, NoProduct) /\ IdleEditor \in EditorRecord
  BY <1>1, IdleIsOK DEF RequestOK
<1>3. Explains(<< >>, NoProduct) /\ << >> \in Seq(Product)
  BY DEF Explains, NoProduct
<1>4. \A p \in Products : product[p] = NoProduct /\ revision[p] = << >>
  BY DEF CatalogInit
<1>5. PublishedWasValid
  BY <1>4 DEF PublishedWasValid, NoProduct
<1> QED
  BY <1>1, <1>2, <1>3, <1>4, <1>5, CatalogAssumption DEF CatalogInit, CatalogInv, NoProduct

\* A request moves on: nothing else changes.
LEMMA RequestMoves ==
  ASSUME CatalogInv, NEW e \in Editors, NEW p \in Products, NEW r, RequestOK(r, product[p]),
         Goes(e, p, r)
  PROVE  CatalogInv'
<1>1. /\ editor' = [editor EXCEPT ![e][p] = r]
      /\ type' = type /\ product' = product /\ revision' = revision /\ overtaken' = overtaken
  BY DEF Goes
<1>2. editor' \in [Editors -> [Products -> EditorRecord]]
  BY <1>1 DEF CatalogInv, RequestOK
<1>3. \A f \in Editors, q \in Products : RequestOK(editor'[f][q], product[q])
  BY <1>1 DEF CatalogInv
<1> QED
  BY <1>1, <1>2, <1>3 DEF CatalogInv, PublishedWasValid

LEMMA Appended ==
  ASSUME NEW history \in Seq(Product), NEW old \in Product, NEW entry \in Product,
         Explains(history, old), entry.version = old.version + 1
  PROVE  Append(history, entry) \in Seq(Product) /\ Explains(Append(history, entry), entry)
<1>1. Len(history) = old.version /\ old.version \in Nat
  BY DEF Explains, Product
<1>2. /\ Len(Append(history, entry)) = old.version + 1
      /\ \A v \in 1..(old.version + 1) :
           Append(history, entry)[v] = IF v = old.version + 1 THEN entry ELSE history[v]
  BY <1>1
<1> HIDE DEF Product
<1> QED
  BY <1>1, <1>2 DEF Explains

\* A row of the next version is written, with its revision; the writer is done.
LEMMA RowWritten ==
  ASSUME CatalogInv, NEW p \in Products, NEW entry \in Product,
         entry.version = product[p].version + 1, entry.status # "absent",
         entry.status = "active" /\ p \notin overtaken' => entry.variants /\ entry.fits > 0,
         type' = type,
         product' = [product EXCEPT ![p] = entry],
         revision' = [revision EXCEPT ![p] = Append(@, entry)],
         editor' = editor \/ \E e \in Editors : editor' = [editor EXCEPT ![e][p] = IdleEditor],
         overtaken' \in {overtaken, overtaken \cup {p}, overtaken \ {p}}
  PROVE  CatalogInv'
<1>1. product[p] \in Product /\ product[p].version \in Nat /\ revision[p] \in Seq(Product)
  <2>1. product[p] \in Product /\ revision[p] \in Seq(Product)
    BY DEF CatalogInv
  <2> QED
    BY <2>1 DEF Product
<1>2. product' \in [Products -> Product]
  BY DEF CatalogInv
<1>3. Append(revision[p], entry) \in Seq(Product) /\ Explains(Append(revision[p], entry), entry)
  BY <1>1, Appended DEF CatalogInv
<1>4. revision' \in [Products -> Seq(Product)]
  BY <1>3 DEF CatalogInv
<1>5. \A q \in Products : Explains(revision'[q], product'[q])
  BY <1>3 DEF CatalogInv
<1>6. \A q \in Products : product'[q].status = "absent" <=> product'[q].version = 0
  BY <1>1 DEF CatalogInv
<1>7. PublishedWasValid'
  BY DEF CatalogInv, PublishedWasValid
<1>8. \A f \in Editors, q \in Products : RequestOK(editor[f][q], product'[q])
  <2> TAKE f \in Editors, q \in Products
  <2>1. RequestOK(editor[f][q], product[q])
    BY DEF CatalogInv
  <2>2. CASE q # p
    BY <2>1, <2>2
  <2>3. CASE q = p
    <3>1. product'[q] = entry /\ editor[f][q].p.version \in Nat
      BY <2>1, <2>3 DEF CatalogInv, RequestOK, EditorRecord, Product
    <3> QED
      BY <2>1, <2>3, <3>1, <1>1 DEF RequestOK
  <2> QED
    BY <2>2, <2>3
<1>9. /\ editor' \in [Editors -> [Products -> EditorRecord]]
      /\ \A f \in Editors, q \in Products : RequestOK(editor'[f][q], product'[q])
  <2>1. RequestOK(IdleEditor, entry) /\ IdleEditor \in EditorRecord
    BY IdleIsOK DEF RequestOK
  <2>2. CASE editor' = editor
    BY <2>2, <1>8 DEF CatalogInv
  <2>3. ASSUME NEW e \in Editors, editor' = [editor EXCEPT ![e][p] = IdleEditor]
        PROVE  /\ editor' \in [Editors -> [Products -> EditorRecord]]
               /\ \A f \in Editors, q \in Products : RequestOK(editor'[f][q], product'[q])
    BY <2>1, <2>3, <1>8 DEF CatalogInv
  <2> QED
    BY <2>2, <2>3
<1>10. type' \in [version : 1..MaxSchemaVersion, definitions : 1..MaxSchemaVersion,
                  active : BOOLEAN] /\ overtaken' \subseteq Products
  BY DEF CatalogInv
<1> QED
  BY <1>2, <1>4, <1>5, <1>6, <1>7, <1>9, <1>10 DEF CatalogInv

LEMMA StepsOfReading ==
  ASSUME CatalogInv, NEW e \in Editors, NEW p \in Products, NEW command \in Commands,
         \/ ReadProduct(e, p, command) \/ ReadVariants(e, p) \/ ReadTypeVersion(e, p)
         \/ ReadDefinitions(e, p) \/ Refuse(e, p)
  PROVE  CatalogInv'
<1> DEFINE r == Request(e, p)
           entry == product[p]
<1>0. /\ entry \in Product /\ RequestOK(r, entry) /\ r \in EditorRecord /\ r.p \in Product
      /\ type.version \in SchemaVersions /\ type.definitions \in SchemaVersions
      /\ type.definitions > 0
  BY CatalogAssumption DEF CatalogInv, RequestOK, Request, EditorRecord, SchemaVersions
<1>1. CASE ReadProduct(e, p, command)
  <2> DEFINE u == Used(command, entry)
             step == IF command = "publish" THEN "variants"
                     ELSE IF command = "restore" THEN "write" ELSE "type"
             n == [IdleEditor EXCEPT !.command = command, !.p = u, !.step = step]
  <2>1. u \in Product
    <3>1. NoProduct \in Product
      BY CatalogAssumption DEF NoProduct, Product, ProductStatus, SchemaVersions
    <3>2. [NoProduct EXCEPT !.status = entry.status, !.version = entry.version] \in Product
      BY <1>0, <3>1, Zenon DEF Product
    <3>3. u \in {entry, NoProduct,
                 [NoProduct EXCEPT !.status = entry.status, !.version = entry.version]}
      BY DEF Used, Commands
    <3> QED
      BY <1>0, <3>1, <3>2, <3>3
  <2>2. IdleEditor \in EditorRecord
    BY <1>0, IdleIsOK DEF RequestOK
  <2>3. n \in EditorRecord /\ n.step = step /\ n.command = command /\ n.p = u
    <3>1. step \in EditorStep
      BY DEF EditorStep
    <3> HIDE DEF step, u
    <3> QED
      BY <2>1, <2>2, <3>1, Zenon DEF EditorRecord
  <2>4. command \in {"update", "updateAndPublish"} => u.status # "absent"
    <3>1. command \in {"update", "updateAndPublish"} => entry.status # "absent"
      BY <1>1 DEF ReadProduct
    <3>2. command \in {"update", "updateAndPublish"} => u.status = entry.status
      BY DEF Used, NoProduct
    <3> QED
      BY <3>1, <3>2
  <2>5. command = "publish" => u = entry
    BY DEF Used
  <2>6. entry.version <= entry.version
    BY <1>0 DEF Product
  <2>7. RequestOK(n, entry)
    <3> HIDE DEF u, n
    <3>1. /\ step = "variants" => command = "publish"
          /\ step = "write" => command = "restore"
          /\ command = "publish" => step = "variants"
      OBVIOUS
    <3> HIDE DEF step
    <3> QED
      BY <2>3, <2>4, <2>5, <2>6, <3>1, Zenon DEF RequestOK
  <2> QED
    BY <1>1, <2>7, RequestMoves DEF ReadProduct
<1>2. CASE ReadVariants(e, p)
  <2> DEFINE n == [r EXCEPT !.step = "type", !.p.variants = entry.variants]
  <2>0. r.step = "variants" /\ Goes(e, p, n)
    BY <1>2 DEF ReadVariants
  <2>1. n \in EditorRecord
    <3>1. [r.p EXCEPT !.variants = entry.variants] \in Product
      BY <1>0, Zenon DEF Product
    <3>2. "type" \in EditorStep
      BY DEF EditorStep
    <3> HIDE DEF r, entry
    <3> QED
      BY <1>0, <3>1, <3>2, Zenon DEF EditorRecord
  <2>2. /\ n.step = "type" /\ n.command = r.command /\ n.p.version = r.p.version
        /\ n.p.fits = r.p.fits /\ n.p.variants = entry.variants
    BY <1>0 DEF EditorRecord, Product
  <2>3. RequestOK(n, entry)
    <3> HIDE DEF n, r, entry
    <3> QED
      BY <1>0, <2>0, <2>1, <2>2 DEF RequestOK
  <2> QED
    BY <2>0, <2>3, RequestMoves
<1>3. CASE ReadTypeVersion(e, p)
  <2> DEFINE n == [r EXCEPT !.step = "definitions", !.schema = type.version]
  <2>0. r.step = "type" /\ (Goes(e, p, n) \/ Goes(e, p, IdleEditor))
    BY <1>3 DEF ReadTypeVersion
  <2>1. n \in EditorRecord
    <3>1. "definitions" \in EditorStep
      BY DEF EditorStep
    <3> HIDE DEF r, entry
    <3> QED
      BY <1>0, <3>1, Zenon DEF EditorRecord
  <2>2. n.step = "definitions" /\ n.command = r.command /\ n.p = r.p
    BY <1>0 DEF EditorRecord
  <2>3. RequestOK(n, entry)
    <3> HIDE DEF n, r, entry
    <3> QED
      BY <1>0, <2>0, <2>1, <2>2 DEF RequestOK
  <2> QED
    BY <1>0, <2>0, <2>3, IdleIsOK, RequestMoves
<1>4. CASE ReadDefinitions(e, p)
  <2> DEFINE n == [r EXCEPT !.step = "write", !.definitions = type.definitions]
  <2>0. r.step = "definitions" /\ Goes(e, p, n)
    BY <1>4 DEF ReadDefinitions
  <2>1. n \in EditorRecord
    <3>1. "write" \in EditorStep
      BY DEF EditorStep
    <3> HIDE DEF r, entry
    <3> QED
      BY <1>0, <3>1, Zenon DEF EditorRecord
  <2>2. n.step = "write" /\ n.command = r.command /\ n.p = r.p /\ n.definitions = type.definitions
    BY <1>0 DEF EditorRecord
  <2>3. RequestOK(n, entry)
    <3> HIDE DEF n, r, entry
    <3> QED
      BY <1>0, <2>0, <2>1, <2>2 DEF RequestOK
  <2> QED
    BY <2>0, <2>3, RequestMoves
<1>5. CASE Refuse(e, p)
  BY <1>0, <1>5, IdleIsOK, RequestMoves DEF Refuse
<1> QED
  BY <1>1, <1>2, <1>3, <1>4, <1>5

LEMMA StepsOfWriting ==
  ASSUME CatalogInv, NEW e \in Editors, NEW p \in Products, NEW first \in {"draft", "active"},
         NEW fits \in SchemaVersions, NEW variants \in BOOLEAN,
         \/ Create(e, p, first, fits, variants) \/ Update(e, p, fits, variants)
         \/ Publish(e, p) \/ Restore(e, p)
  PROVE  CatalogInv'
<1> DEFINE r == Request(e, p)
           old == product[p]
<1>0. /\ old \in Product /\ RequestOK(r, old) /\ r \in EditorRecord /\ r.p \in Product
      /\ (old.status = "absent" <=> old.version = 0)
      /\ (old.status = "active" /\ p \notin overtaken => old.variants /\ old.fits > 0)
  BY DEF CatalogInv, RequestOK, Request, EditorRecord, PublishedWasValid
<1>00. /\ old.version \in 0..MaxProductVersion /\ old.fits \in SchemaVersions
       /\ old.variants \in BOOLEAN /\ old.schema \in SchemaVersions
       /\ r.schema \in SchemaVersions /\ r.definitions \in SchemaVersions
       /\ r.p.status \in ProductStatus /\ r.p.version \in 0..MaxProductVersion
  BY <1>0 DEF Product, EditorRecord
<1>1. CASE Create(e, p, first, fits, variants)
  <2> DEFINE entry == [status |-> first, version |-> 1, schema |-> r.schema,
                     fits |-> fits, variants |-> variants]
  <2>1. old.version = 0
    BY <1>0, <1>1 DEF Create
  <2>2. entry \in Product
    BY <1>00, CatalogAssumption DEF Product, ProductStatus
  <2>3. first = "active" => variants /\ fits > 0
    BY <1>0, <1>1, <1>00 DEF Create, Writing, Valid, RequestOK
  <2>4. /\ type' = type /\ product' = [product EXCEPT ![p] = entry]
        /\ revision' = [revision EXCEPT ![p] = Append(@, entry)]
        /\ editor' = [editor EXCEPT ![e][p] = IdleEditor]
        /\ overtaken' = overtaken
    BY <1>1 DEF Create, WriteProduct
  <2>5. entry.version = old.version + 1 /\ entry.status = first /\ first # "absent"
        /\ entry.fits = fits /\ entry.variants = variants
    BY <2>1
  <2> HIDE DEF entry
  <2> QED
    BY <2>2, <2>3, <2>4, <2>5, RowWritten
<1>2. CASE Update(e, p, fits, variants)
  <2> DEFINE s == IF r.command = "updateAndPublish" THEN "active" ELSE r.p.status
             entry == [status |-> s, version |-> r.p.version + 1,
                     schema |-> r.schema, fits |-> fits, variants |-> variants]
  <2>1. old.version = r.p.version /\ old.version < MaxProductVersion
    BY <1>2 DEF Update, Writing
  <2>2. s \in ProductStatus /\ s # "absent"
    BY <1>0, <1>00, <1>2 DEF Update, Writing, RequestOK, ProductStatus
  <2>3. s = "active" => variants /\ fits > 0
    BY <1>0, <1>2, <1>00 DEF Update, Writing, Valid, RequestOK
  <2>4. /\ type' = type /\ product' = [product EXCEPT ![p] = entry]
        /\ revision' = [revision EXCEPT ![p] = Append(@, entry)]
        /\ editor' = [editor EXCEPT ![e][p] = IdleEditor]
        /\ overtaken' = overtaken \ {p}
    BY <1>2 DEF Update, WriteProduct
  <2> HIDE DEF s
  <2>5. entry \in Product
    <3>1. r.p.version + 1 \in 0..MaxProductVersion
      BY <1>00, <2>1, CatalogAssumption
    <3> QED
      BY <1>00, <2>2, <3>1 DEF Product
  <2> QED
    BY <2>1, <2>2, <2>3, <2>4, <2>5, RowWritten
<1>3. ASSUME old.version < MaxProductVersion
      PROVE  \A s \in ProductStatus, c \in SchemaVersions :
               /\ [old EXCEPT !.status = s, !.version = @ + 1, !.schema = c] \in Product
               /\ [old EXCEPT !.status = s, !.version = @ + 1] \in Product
  <2>1. old.version + 1 \in 0..MaxProductVersion
    BY <1>00, <1>3, CatalogAssumption
  <2> HIDE DEF old
  <2> QED
    BY <1>0, <2>1, Zenon DEF Product
<1>4. CASE Publish(e, p)
  <2> DEFINE entry == [old EXCEPT !.status = "active", !.version = @ + 1, !.schema = r.schema]
  <2>1. old.version < MaxProductVersion
    BY <1>4 DEF Publish, Writing
  <2>2. entry \in Product
    BY <2>1, <1>3, <1>00 DEF ProductStatus
  <2>3. /\ entry.status = "active" /\ entry.version = old.version + 1
        /\ entry.variants = old.variants /\ entry.fits = old.fits
    BY <1>0 DEF Product
  <2>4. old.version = r.p.version => old.variants /\ old.fits > 0
    BY <1>0, <1>00, <1>4 DEF Publish, Writing, Valid, RequestOK
  <2>5. /\ type' = type /\ product' = [product EXCEPT ![p] = entry]
        /\ revision' = [revision EXCEPT ![p] = Append(@, entry)]
        /\ editor' = [editor EXCEPT ![e][p] = IdleEditor]
        /\ overtaken' = IF old.version = r.p.version THEN overtaken \ {p} ELSE overtaken \cup {p}
    BY <1>4 DEF Publish, WriteProduct
  <2> HIDE DEF entry, r
  <2> QED
    BY <2>2, <2>3, <2>4, <2>5, RowWritten
<1>5. CASE Restore(e, p)
  <2> DEFINE entry == [old EXCEPT !.status = "draft", !.version = @ + 1]
  <2>1. entry \in Product
    BY <1>3, <1>5, <1>00 DEF ProductStatus, Restore, Writing
  <2>2. entry.status = "draft" /\ entry.version = old.version + 1
    BY <1>0 DEF Product
  <2>3. /\ type' = type /\ product' = [product EXCEPT ![p] = entry]
        /\ revision' = [revision EXCEPT ![p] = Append(@, entry)]
        /\ editor' = [editor EXCEPT ![e][p] = IdleEditor]
        /\ overtaken' = overtaken
    BY <1>5 DEF Restore, WriteProduct
  <2> HIDE DEF entry
  <2> QED
    BY <2>1, <2>2, <2>3, RowWritten
<1> QED
  BY <1>1, <1>2, <1>4, <1>5

LEMMA CatalogStep == CatalogInv /\ [CatalogNext]_catalogVars => CatalogInv'
<1> SUFFICES ASSUME CatalogInv, [CatalogNext]_catalogVars PROVE CatalogInv'
  OBVIOUS
<1>1. ASSUME NEW replace \in BOOLEAN, UpdateType(replace) PROVE CatalogInv'
  <2>1. type' \in [version : 1..MaxSchemaVersion, definitions : 1..MaxSchemaVersion,
                   active : BOOLEAN]
    <3>1. type.version + 1 \in 1..MaxSchemaVersion
      <4>1. type.version \in 1..MaxSchemaVersion /\ type.version < MaxSchemaVersion
        BY <1>1 DEF CatalogInv, UpdateType
      <4> QED
        BY <4>1, CatalogAssumption
    <3>2. (IF replace THEN type.version + 1 ELSE type.definitions) \in 1..MaxSchemaVersion
      BY <3>1 DEF CatalogInv
    <3> QED
      BY <1>1, <3>1, <3>2, Zenon DEF CatalogInv, UpdateType, NewDefinitions
  <2> QED
    BY <1>1, <2>1 DEF UpdateType, CatalogInv, PublishedWasValid
<1>2. CASE ArchiveType
  <2>1. type' \in [version : 1..MaxSchemaVersion, definitions : 1..MaxSchemaVersion,
                   active : BOOLEAN]
    BY <1>2 DEF CatalogInv, ArchiveType
  <2> QED
    BY <1>2, <2>1 DEF ArchiveType, CatalogInv, PublishedWasValid
<1>3. ASSUME NEW e \in Editors, NEW p \in Products,
             \/ \E command \in Commands : ReadProduct(e, p, command)
             \/ ReadVariants(e, p) \/ ReadTypeVersion(e, p) \/ ReadDefinitions(e, p)
             \/ Refuse(e, p)
      PROVE  CatalogInv'
  <2>1. "update" \in Commands
    BY DEF Commands
  <2> QED
    BY <1>3, <2>1, StepsOfReading
<1>4. ASSUME NEW e \in Editors, NEW p \in Products,
             \/ \E fits \in SchemaVersions, variants \in BOOLEAN :
                  \/ \E first \in {"draft", "active"} : Create(e, p, first, fits, variants)
                  \/ Update(e, p, fits, variants)
             \/ Publish(e, p) \/ Restore(e, p)
      PROVE  CatalogInv'
  <2>1. 0 \in SchemaVersions /\ TRUE \in BOOLEAN /\ "draft" \in {"draft", "active"}
    BY CatalogAssumption DEF SchemaVersions
  <2> QED
    BY <1>4, <2>1, StepsOfWriting
<1>5. ASSUME NEW p \in Products, Archive(p) PROVE CatalogInv'
  <2> DEFINE old == product[p]
             entry == [old EXCEPT !.status = "archived", !.version = @ + 1]
  <2>0. old \in Product /\ old.version \in 0..MaxProductVersion /\ old.version < MaxProductVersion
    BY <1>5 DEF CatalogInv, Product, Archive
  <2>1. entry \in Product
    <3>1. old.version + 1 \in 0..MaxProductVersion /\ "archived" \in ProductStatus
      BY <2>0, CatalogAssumption DEF ProductStatus
    <3> HIDE DEF old
    <3> QED
      BY <2>0, <3>1, Zenon DEF Product
  <2>2. entry.status = "archived" /\ entry.version = old.version + 1
    BY <2>0 DEF Product
  <2>3. product' = [product EXCEPT ![p] = entry]
    BY <1>5 DEF Archive
  <2>4. product'[p] = entry
    BY <2>3 DEF CatalogInv
  <2>5. /\ type' = type /\ editor' = editor /\ overtaken' = overtaken
        /\ revision' = [revision EXCEPT ![p] = Append(@, entry)]
    BY <1>5, <2>4 DEF Archive
  <2> HIDE DEF entry
  <2> QED
    BY <2>1, <2>2, <2>3, <2>5, RowWritten
<1>6. CASE UNCHANGED catalogVars
  BY <1>6 DEF catalogVars, CatalogInv, PublishedWasValid
<1> QED
  BY <1>1, <1>2, <1>3, <1>4, <1>5, <1>6 DEF CatalogNext

\* The strengthening both properties of the catalog rest on: rows, revisions and what
\* each request of product.service.ts has read of its product.
THEOREM CatalogInvariant == CatalogSpec => []CatalogInv
  BY CatalogInitially, CatalogStep, PTL DEF CatalogSpec

\* A product's revisions are its history, the last one the row itself
\* (RevisionsExplainProduct): every writer of product.service.ts adds one to the
\* version and inserts the revision in the same transaction.
THEOREM RevisionsExplainProductInvariant == CatalogSpec => []RevisionsExplainProduct
<1>1. CatalogInv => RevisionsExplainProduct
  BY DEF CatalogInv, RevisionsExplainProduct, Explains
<1> QED
  BY <1>1, CatalogInvariant, PTL

\* An active product has variants and complete attributes, unless publish wrote over a
\* row that had changed (PublishedWasValid): the four reads of a command agree as long
\* as the version of the product has not moved.
THEOREM PublishedWasValidInvariant == CatalogSpec => []PublishedWasValid
<1>1. CatalogInv => PublishedWasValid
  BY DEF CatalogInv
<1> QED
  BY <1>1, CatalogInvariant, PTL

-----------------------------------------------------------------------------
\* Configuration.

\* What OneVersionGoverns says of the versions of one subject.
Governed(versions, pub) ==
  /\ versions \in Seq(VersionStatus)
  /\ Len(versions) <= MaxVersions
  /\ pub \subseteq 1..Len(versions)
  /\ \A v \in 1..Len(versions) :
       /\ versions[v] = "draft" => v = Len(versions)
       /\ versions[v] = "published" => v \in pub
       /\ \A w \in 1..Len(versions) :
            versions[v] = "published" /\ versions[w] = "published" => v = w
  /\ pub # {} => \E v \in 1..Len(versions) : versions[v] = "published"

View ==
  [step : {"closed", "loading", "open"}, expected : Nat, draft : 0..MaxVersions,
   live : 0..MaxVersions]

\* What a command compares the expectation of its screen with.
Number(s) == IF s \in Counted THEN counter[s] ELSE Latest(s)

\* A screen whose expectation is still met shows what a command would supersede.
\* Publishing the settings moves no number, but leaves no draft to publish.
Shows(view, s) ==
  /\ view.expected <= Number(s)
  /\ view.step = "open" /\ view.expected = Number(s) /\ (s \in Settings => With(s, "draft") # {}) =>
       view.draft = Shown(s, "draft") /\ view.live = Shown(s, "published")

ConfigInv ==
  /\ status \in [Subjects -> Seq(VersionStatus)]
  /\ published \in [Subjects -> SUBSET Nat]
  /\ counter \in [Subjects -> Nat]
  /\ screen \in [Managers -> [Subjects -> View]]
  /\ pricing \in [Quotes -> [Counted -> Nat]]
  /\ decisions \subseteq [subject : Counted, version : Nat]
  /\ \A s \in Subjects : Governed(status[s], published[s]) /\ (Latest(s) = 0 => counter[s] = 0)
  /\ \A q \in Quotes, s \in Counted : pricing[q][s] # 0 => pricing[q][s] \in published[s]
  /\ \A d \in decisions : d.version \in published[d.subject]
  /\ \A m \in Managers, s \in Subjects : Shows(screen[m][s], s)

LEMMA ConfigInitially == ConfigInit => ConfigInv
<1> SUFFICES ASSUME ConfigInit PROVE ConfigInv
  OBVIOUS
<1>1. Governed(<< >>, {})
  BY ConfigurationAssumption DEF Governed
<1>2. \A s \in Subjects : Shows(NoScreen, s) /\ Latest(s) = 0
  BY DEF ConfigInit, Shows, NoScreen, Number, Latest, Subjects
<1> QED
  BY <1>1, <1>2, ConfigurationAssumption DEF ConfigInit, ConfigInv, NoScreen, View, Subjects

\* At most one version has a status that a command supersedes.
LEMMA ShownIsIt ==
  ASSUME ConfigInv, NEW s \in Subjects, NEW what \in {"draft", "published"}
  PROVE  /\ Shown(s, what) \in 0..MaxVersions
         /\ \A v \in Listed(s) : status[s][v] = what => Shown(s, what) = v
<1> DEFINE V == {v \in Listed(s) : status[s][v] = what}
<1>1. \A v \in V : v \in 1..Latest(s) /\ status[s][v] = what
  BY DEF Listed
<1>2. \A v, w \in V : v = w /\ v \in 0..MaxVersions /\ v <= w
  <2>1. Latest(s) = Len(status[s]) /\ Latest(s) \in Nat /\ Governed(status[s], published[s])
    BY DEF ConfigInv, Latest
  <2> HIDE DEF V
  <2> QED
    BY <1>1, <2>1, ConfigurationAssumption DEF Governed
<1>3. Shown(s, what) = IF V = {} THEN 0 ELSE CHOOSE v \in V : \A w \in V : w <= v
  BY DEF Shown
<1> HIDE DEF V
<1>4. Shown(s, what) \in 0..MaxVersions /\ \A v \in V : Shown(s, what) = v
  <2>1. CASE V = {}
    BY <1>3, <2>1, ConfigurationAssumption
  <2>2. CASE V # {}
    <3>1. PICK v \in V : \A w \in V : w <= v
      BY <1>2, <2>2
    <3>2. (CHOOSE x \in V : \A w \in V : w <= x) \in V
      BY <3>1
    <3> QED
      BY <1>2, <1>3, <2>2, <3>2
  <2> QED
    BY <2>1, <2>2
<1> QED
  BY <1>4 DEF V

\* What is shown of a subject depends on the subject alone.
LEMMA SameSubject ==
  ASSUME NEW s \in Subjects, status'[s] = status[s], counter'[s] = counter[s], NEW view
  PROVE  Shows(view, s) => Shows(view, s)'
<1>1. Latest(s)' = Latest(s)
  BY DEF Latest
<1>2. Number(s)' = Number(s) /\ With(s, "draft")' = With(s, "draft") /\ Listed(s)' = Listed(s)
  BY <1>1 DEF Number, With, Listed
<1>3. Shown(s, "draft")' = Shown(s, "draft") /\ Shown(s, "published")' = Shown(s, "published")
  BY <1>2 DEF Shown
<1> QED
  BY <1>2, <1>3 DEF Shows

LEMMA ScreenLoads ==
  ASSUME ConfigInv, NEW m \in Managers, NEW s \in Subjects, NEW view \in View,
         Opens(m, s, view), Shows(view, s)
  PROVE  ConfigInv'
<1>1. /\ screen' = [screen EXCEPT ![m][s] = view]
      /\ status' = status /\ published' = published /\ counter' = counter
      /\ pricing' = pricing /\ decisions' = decisions
  BY DEF Opens
<1>2. screen' \in [Managers -> [Subjects -> View]]
  BY <1>1 DEF ConfigInv
<1>3. \A k \in Managers, t \in Subjects : Shows(screen'[k][t], t)
  BY <1>1 DEF ConfigInv
<1>4. \A k \in Managers, t \in Subjects : Shows(screen[k][t], t)'
  BY <1>1, <1>3, SameSubject
<1> QED
  BY <1>1, <1>2, <1>4 DEF ConfigInv, Latest

\* A subject gets versions that govern it, and no screen keeps the number of a draft
\* that is gone.
LEMMA VersionsChange ==
  ASSUME ConfigInv, NEW s \in Subjects, NEW versions, NEW pub,
         Governed(versions, pub), Len(versions) > 0, published[s] \subseteq pub,
         status' = [status EXCEPT ![s] = versions],
         published' = [published EXCEPT ![s] = pub],
         counter' = counter \/ counter' = [counter EXCEPT ![s] = counter[s] + 1],
         Number(s)' >= Number(s),
         \/ Number(s)' > Number(s)
         \/ s \notin Counted /\ \A v \in 1..Len(versions) : versions[v] # "draft",
         screen' = screen \/ \E m \in Managers : screen' = [screen EXCEPT ![m][s] = NoScreen],
         pricing' = pricing, decisions' = decisions
  PROVE  ConfigInv'
<1>1. /\ status' \in [Subjects -> Seq(VersionStatus)]
      /\ published' \in [Subjects -> SUBSET Nat]
      /\ counter' \in [Subjects -> Nat]
  BY DEF ConfigInv, Governed
<1>2. NoScreen \in View
  BY ConfigurationAssumption DEF NoScreen, View
<1>3. screen' \in [Managers -> [Subjects -> View]]
  <2>1. screen \in [Managers -> [Subjects -> View]]
    BY DEF ConfigInv
  <2>2. ASSUME NEW m \in Managers, screen' = [screen EXCEPT ![m][s] = NoScreen]
        PROVE  screen' \in [Managers -> [Subjects -> View]]
    BY <1>2, <2>1, <2>2
  <2> QED
    BY <2>1, <2>2
<1>4. \A t \in Subjects : Governed(status'[t], published'[t])
                          /\ (Latest(t)' = 0 => counter'[t] = 0)
  BY DEF ConfigInv, Latest
<1>5. \A t \in Subjects : published[t] \subseteq published'[t]
  BY DEF ConfigInv
<1>6. \A t \in Subjects : Number(t) \in Nat /\ Number(t)' \in Nat
  <2>1. \A t \in Subjects : /\ status[t] \in Seq(VersionStatus) /\ status'[t] \in Seq(VersionStatus)
                           /\ counter[t] \in Nat /\ counter'[t] \in Nat
    BY <1>1 DEF ConfigInv
  <2> QED
    BY <2>1 DEF Number, Latest
<1>7. ASSUME NEW k \in Managers, NEW t \in Subjects, t # s
      PROVE  Shows(screen[k][t], t)'
  <2>1. screen'[k][t] = screen[k][t] /\ status'[t] = status[t] /\ counter'[t] = counter[t]
    <3>1. screen'[k] \in [Subjects -> View] /\ screen[k] \in [Subjects -> View]
      BY <1>3 DEF ConfigInv
    <3>2. ASSUME NEW m \in Managers, screen' = [screen EXCEPT ![m][s] = NoScreen]
          PROVE  screen'[k][t] = screen[k][t]
      BY <1>7, <3>1, <3>2 DEF ConfigInv
    <3> QED
      BY <1>7, <3>2 DEF ConfigInv
  <2>2. Shows(screen[k][t], t)
    BY DEF ConfigInv
  <2> QED
    BY <2>1, <2>2, SameSubject
<1>8. ASSUME NEW k \in Managers
      PROVE  Shows(screen[k][s], s)'
  <2>1. screen'[k][s] \in {screen[k][s], NoScreen} /\ screen[k][s] \in View
    <3>1. screen[k] \in [Subjects -> View]
      BY DEF ConfigInv
    <3>2. CASE screen' = screen
      BY <3>1, <3>2
    <3>3. ASSUME NEW m \in Managers, screen' = [screen EXCEPT ![m][s] = NoScreen]
          PROVE  screen'[k][s] \in {screen[k][s], NoScreen}
      BY <3>1, <3>3 DEF ConfigInv
    <3> QED
      BY <3>1, <3>2, <3>3
  <2>2. CASE screen'[k][s] = NoScreen
    BY <2>2, <1>6 DEF Shows, NoScreen
  <2>3. CASE screen'[k][s] = screen[k][s]
    <3>1. screen[k][s].expected <= Number(s) /\ screen[k][s].expected \in Nat
      BY <2>1 DEF ConfigInv, Shows, View
    <3>2. CASE Number(s)' > Number(s)
      BY <2>3, <3>1, <3>2, <1>6 DEF Shows
    <3>3. CASE s \notin Counted /\ \A v \in 1..Len(versions) : versions[v] # "draft"
      <4>1. s \in Settings /\ (With(s, "draft") = {})'
        BY <3>3 DEF ConfigInv, Subjects, With, Latest
      <4>2. screen'[k][s].expected <= Number(s)'
        BY <2>3, <3>1, <1>6
      <4> QED
        BY <4>1, <4>2 DEF Shows
    <3> QED
      BY <3>2, <3>3
  <2> QED
    BY <2>1, <2>2, <2>3
<1>9. \A k \in Managers, t \in Subjects : Shows(screen[k][t], t)'
  BY <1>7, <1>8
<1>10. /\ \A q \in Quotes, t \in Counted : pricing'[q][t] # 0 => pricing'[q][t] \in published'[t]
       /\ \A d \in decisions' : d.version \in published'[d.subject]
  BY <1>5 DEF ConfigInv, Subjects
<1> QED
  BY <1>1, <1>3, <1>4, <1>9, <1>10 DEF ConfigInv

LEMMA StepsOfScreens ==
  ASSUME ConfigInv, NEW m \in Managers, NEW s \in Subjects,
         OpenCounted(m, s) \/ LoadVersions(m, s) \/ OpenSettings(m, s)
  PROVE  ConfigInv'
<1>0. /\ Shown(s, "draft") \in 0..MaxVersions /\ Shown(s, "published") \in 0..MaxVersions
      /\ Number(s) \in Nat
  <2>1. "draft" \in {"draft", "published"} /\ "published" \in {"draft", "published"}
    OBVIOUS
  <2>2. Latest(s) \in Nat /\ counter[s] \in Nat
    BY DEF ConfigInv, Latest
  <2> QED
    BY <2>1, <2>2, ShownIsIt DEF Number
<1>00. screen[m][s] \in View /\ Shows(screen[m][s], s)
  BY DEF ConfigInv
<1>1. CASE OpenCounted(m, s)
  <2> DEFINE n == [NoScreen EXCEPT !.step = "loading", !.expected = counter[s]]
  <2>1. n \in View /\ n.step = "loading" /\ n.expected = counter[s]
    <3>1. NoScreen \in View /\ counter[s] \in Nat
      BY ConfigurationAssumption DEF NoScreen, View, ConfigInv
    <3> QED
      BY <3>1, Zenon DEF View
  <2>2. Opens(m, s, n)
    BY <1>1 DEF OpenCounted
  <2> HIDE DEF n
  <2>3. n \in View /\ n.step = "loading" /\ n.expected = Number(s)
    BY <1>1, <2>1 DEF OpenCounted, Number
  <2>4. Shows(n, s)
    BY <1>0, <2>3 DEF Shows
  <2> QED
    BY <2>2, <2>3, <2>4, ScreenLoads
<1>2. ASSUME NEW x \in Nat, x <= Number(s),
             Opens(m, s, [step |-> "open", expected |-> x,
                          draft |-> Shown(s, "draft"), live |-> Shown(s, "published")])
      PROVE  ConfigInv'
  <2> DEFINE n == [step |-> "open", expected |-> x,
                   draft |-> Shown(s, "draft"), live |-> Shown(s, "published")]
  <2>1. n \in View
    BY <1>0 DEF View
  <2>2. Shows(n, s)
    BY <1>2 DEF Shows
  <2> QED
    BY <1>2, <2>1, <2>2, ScreenLoads
<1>3. CASE LoadVersions(m, s)
  BY <1>00, <1>2, <1>3 DEF LoadVersions, Shows, View
<1>4. CASE OpenSettings(m, s)
  <2>1. Latest(s) = Number(s)
    BY <1>4, ConfigurationAssumption DEF OpenSettings, Number
  <2> QED
    BY <1>0, <1>2, <1>4, <2>1 DEF OpenSettings
<1> QED
  BY <1>1, <1>3, <1>4

LEMMA SupersedeKeeps ==
  ASSUME NEW s \in Subjects, status[s] \in Seq(VersionStatus), NEW what
  PROVE  /\ Supersede(s, what) \in Seq(VersionStatus)
         /\ Len(Supersede(s, what)) = Latest(s)
         /\ \A v \in 1..Latest(s) :
              Supersede(s, what)[v] = IF status[s][v] = what THEN "superseded" ELSE status[s][v]
  BY DEF Supersede, Latest, VersionStatus

LEMMA StepsOfVersions ==
  ASSUME ConfigInv, NEW m \in Managers, NEW s \in Subjects,
         SaveDraft(m, s) \/ PublishVersion(m, s)
  PROVE  ConfigInv'
<1> DEFINE n == Latest(s)
           pub == published[s]
<1>0. /\ status[s] \in Seq(VersionStatus) /\ Governed(status[s], pub)
      /\ n = Len(status[s]) /\ n \in Nat /\ counter[s] \in Nat
  BY DEF ConfigInv, Latest
<1>1. \/ s \in Counted /\ counter' = [counter EXCEPT ![s] = counter[s] + 1]
      \/ s \notin Counted /\ counter' = counter
  BY DEF SaveDraft, PublishVersion, Counts
<1>2. CASE SaveDraft(m, s)
  <2> DEFINE old == Supersede(s, "draft")
             versions == Append(old, "draft")
  <2>1. /\ old \in Seq(VersionStatus) /\ Len(old) = n
        /\ \A v \in 1..n : old[v] = IF status[s][v] = "draft" THEN "superseded" ELSE status[s][v]
    BY <1>0, SupersedeKeeps
  <2>2. n < MaxVersions
    BY <1>2 DEF SaveDraft
  <2>3. /\ versions \in Seq(VersionStatus) /\ Len(versions) = n + 1
        /\ \A v \in 1..n : versions[v] = old[v]
        /\ versions[n + 1] = "draft"
    <3> HIDE DEF old, n
    <3> QED
      BY <1>0, <2>1 DEF VersionStatus
  <2>4. Governed(versions, pub)
    <3> HIDE DEF old, versions, n, pub
    <3>1. \A v \in 1..n : /\ versions[v] # "draft"
                          /\ versions[v] = "published" <=> status[s][v] = "published"
      BY <2>1, <2>3
    <3>2. \A v \in 1..(n + 1) : v \in 1..n \/ v = n + 1
      BY <1>0
    <3>3. n + 1 <= MaxVersions /\ 1..n \subseteq 1..(n + 1)
      BY <1>0, <2>2, ConfigurationAssumption
    <3>4. /\ pub \subseteq 1..n
          /\ \A v \in 1..n : status[s][v] = "published" => v \in pub
          /\ \A v, w \in 1..n : status[s][v] = "published" /\ status[s][w] = "published" => v = w
          /\ pub # {} => \E v \in 1..n : status[s][v] = "published"
      BY <1>0 DEF Governed
    <3>5. \A v \in 1..(n + 1) : versions[v] = "published" => v \in 1..n
      BY <2>3, <3>2
    <3> QED
      BY <2>3, <3>1, <3>2, <3>3, <3>4, <3>5 DEF Governed
  <2>5. /\ status' = [status EXCEPT ![s] = versions] /\ published' = [published EXCEPT ![s] = pub]
        /\ screen' = [screen EXCEPT ![m][s] = NoScreen]
        /\ pricing' = pricing /\ decisions' = decisions
    BY <1>2 DEF SaveDraft, ConfigInv
  <2>6. Number(s)' > Number(s) /\ Number(s)' >= Number(s)
    <3>1. status'[s] = versions
      BY <2>5 DEF ConfigInv
    <3>2. Latest(s)' = n + 1
      BY <2>3, <3>1 DEF Latest
    <3>3. s \in Counted => counter'[s] = counter[s] + 1
      BY <1>1 DEF ConfigInv
    <3> HIDE DEF versions
    <3> QED
      BY <1>0, <3>2, <3>3 DEF Number
  <2> HIDE DEF versions, pub
  <2>7. Len(versions) > 0 /\ published[s] \subseteq pub
    BY <1>0, <2>3 DEF pub
  <2> QED
    BY <1>1, <2>4, <2>5, <2>6, <2>7, VersionsChange
<1>3. CASE PublishVersion(m, s)
  <2> DEFINE d == screen[m][s].draft
             old == Supersede(s, "published")
             versions == [old EXCEPT ![d] = "published"]
             more == pub \cup {d}
  <2>1. /\ old \in Seq(VersionStatus) /\ Len(old) = n
        /\ \A v \in 1..n :
             old[v] = IF status[s][v] = "published" THEN "superseded" ELSE status[s][v]
    BY <1>0, SupersedeKeeps
  <2>2. d \in 1..n /\ status[s][d] = "draft"
    BY <1>3 DEF PublishVersion, Publishable
  <2>3. /\ versions \in Seq(VersionStatus) /\ Len(versions) = n
        /\ \A v \in 1..n : versions[v] = IF v = d THEN "published" ELSE old[v]
    <3>1. "published" \in VersionStatus
      BY DEF VersionStatus
    <3> HIDE DEF old, n, d
    <3> QED
      BY <1>0, <2>1, <2>2, <3>1
  <2>4. d = n
    BY <1>0, <2>2 DEF Governed
  <2>5. Governed(versions, more) /\ \A v \in 1..n : versions[v] # "draft"
    <3> HIDE DEF old, versions, n, pub, d
    <3>1. \A v \in 1..n : status[s][v] = "draft" => v = n
      BY <1>0 DEF Governed
    <3>2. \A v \in 1..n : versions[v] = "published" <=> v = d
      BY <2>1, <2>3
    <3>3. \A v \in 1..n : versions[v] # "draft"
      BY <2>1, <2>3, <2>4, <3>1
    <3>4. more \subseteq 1..n /\ d \in more /\ n <= MaxVersions
      BY <1>0, <2>2 DEF Governed
    <3> HIDE DEF more
    <3> QED
      BY <2>2, <2>3, <3>2, <3>3, <3>4 DEF Governed
  <2>6. /\ status' = [status EXCEPT ![s] = versions] /\ published' = [published EXCEPT ![s] = more]
        /\ screen' = [screen EXCEPT ![m][s] = NoScreen]
        /\ pricing' = pricing /\ decisions' = decisions
    BY <1>3 DEF PublishVersion
  <2>7. IF s \in Counted THEN Number(s)' > Number(s) /\ Number(s)' >= Number(s)
        ELSE Number(s)' >= Number(s)
    <3>1. status'[s] = versions
      BY <2>6 DEF ConfigInv
    <3>2. Latest(s)' = n
      BY <2>3, <3>1 DEF Latest
    <3>3. s \in Counted => counter'[s] = counter[s] + 1
      BY <1>1 DEF ConfigInv
    <3> HIDE DEF versions
    <3> QED
      BY <1>0, <3>2, <3>3 DEF Number
  <2>8. Len(versions) > 0 /\ published[s] \subseteq more
    BY <1>0, <2>2, <2>3
  <2>9. Number(s)' >= Number(s)
    BY <2>7
  <2>10. \/ Number(s)' > Number(s)
         \/ s \notin Counted /\ \A v \in 1..Len(versions) : versions[v] # "draft"
    BY <2>3, <2>5, <2>7
  <2> HIDE DEF versions, more
  <2> QED
    BY <1>1, <2>5, <2>6, <2>8, <2>9, <2>10, VersionsChange
<1> QED
  BY <1>2, <1>3

LEMMA ConfigStep == ConfigInv /\ [ConfigNext]_configVars => ConfigInv'
<1> SUFFICES ASSUME ConfigInv, [ConfigNext]_configVars PROVE ConfigInv'
  OBVIOUS
<1>1. ASSUME NEW s \in Counted, CreateSubject(s) PROVE ConfigInv'
  <2>0. s \in Subjects /\ Latest(s) = 0 /\ counter[s] = 0
    <3>1. s \in Subjects /\ ~(Latest(s) > 0)
      BY <1>1 DEF CreateSubject, Exists, Subjects
    <3>2. Latest(s) \in Nat
      BY <3>1 DEF ConfigInv, Latest
    <3> QED
      BY <3>1, <3>2 DEF ConfigInv
  <2>1. published[s] = {}
    BY <2>0 DEF ConfigInv, Governed, Latest
  <2>2. Governed(<<"draft">>, {}) /\ Len(<<"draft">>) > 0
    BY <1>1, ConfigurationAssumption DEF Governed, VersionStatus, CreateSubject
  <2>3. /\ status' = [status EXCEPT ![s] = <<"draft">>] /\ published' = [published EXCEPT ![s] = {}]
        /\ counter' = [counter EXCEPT ![s] = counter[s] + 1] /\ screen' = screen
        /\ pricing' = pricing /\ decisions' = decisions
    BY <1>1, <2>0, <2>1 DEF CreateSubject, ConfigInv
  <2>4. Number(s)' > Number(s) /\ Number(s)' >= Number(s)
    BY <2>0, <2>3 DEF Number, ConfigInv
  <2> HIDE DEF Number
  <2> QED
    BY <2>0, <2>1, <2>2, <2>3, <2>4, VersionsChange
<1>2. ASSUME NEW s \in Counted, NEW q \in Quotes, ReadPolicy(q, s) PROVE ConfigInv'
  <2>1. PICK v \in 1..Latest(s) :
          /\ status[s][v] = "published"
          /\ pricing' = [pricing EXCEPT ![q][s] = v]
          /\ UNCHANGED <<status, published, counter, screen, decisions>>
    BY <1>2 DEF ReadPolicy
  <2>2. v \in published[s] /\ v \in Nat
    BY <2>1 DEF ConfigInv, Governed, Latest, Subjects
  <2>3. \A x \in Managers, y \in Subjects : Shows(screen[x][y], y)'
    BY <2>1, SameSubject DEF ConfigInv
  <2>4. /\ pricing' \in [Quotes -> [Counted -> Nat]]
        /\ \A p \in Quotes, t \in Counted : pricing'[p][t] # 0 => pricing'[p][t] \in published[t]
    BY <2>1, <2>2 DEF ConfigInv
  <2> QED
    BY <2>1, <2>3, <2>4 DEF ConfigInv, Latest
<1>3. ASSUME NEW s \in Counted, NEW q \in Quotes, Decide(q, s) PROVE ConfigInv'
  <2>1. /\ pricing[q][s] # 0
        /\ decisions' \subseteq decisions \cup {[subject |-> s, version |-> pricing[q][s]]}
        /\ pricing' = [pricing EXCEPT ![q][s] = 0]
        /\ UNCHANGED <<status, published, counter, screen>>
    BY <1>3 DEF Decide
  <2>2. pricing[q][s] \in published[s] /\ pricing[q][s] \in Nat
    BY <2>1 DEF ConfigInv
  <2>3. \A x \in Managers, y \in Subjects : Shows(screen[x][y], y)'
    BY <2>1, SameSubject DEF ConfigInv
  <2>4. /\ pricing' \in [Quotes -> [Counted -> Nat]]
        /\ \A p \in Quotes, t \in Counted : pricing'[p][t] # 0 => pricing'[p][t] \in published[t]
    BY <2>1 DEF ConfigInv
  <2>5. /\ decisions' \subseteq [subject : Counted, version : Nat]
        /\ \A x \in decisions' : x.version \in published[x.subject]
    BY <2>1, <2>2 DEF ConfigInv
  <2> QED
    BY <2>1, <2>3, <2>4, <2>5 DEF ConfigInv, Latest
<1>4. CASE UNCHANGED configVars
  <2>1. \A x \in Managers, y \in Subjects : Shows(screen[x][y], y)'
    BY <1>4, SameSubject DEF ConfigInv, configVars
  <2> QED
    BY <1>4, <2>1 DEF configVars, ConfigInv, Latest
<1> QED
  BY <1>1, <1>2, <1>3, <1>4, StepsOfScreens, StepsOfVersions DEF ConfigNext

\* The strengthening both properties of the configuration rest on: the versions of a
\* subject, and the screens whose number is still the subject's.
THEOREM ConfigInvariant == ConfigSpec => []ConfigInv
  BY ConfigInitially, ConfigStep, PTL DEF ConfigSpec

\* A subject has one draft at most, its newest version, one published version from the
\* first publication on, and decides prices by versions that were published
\* (OneVersionGoverns): saveDraft and publish of the three configuration services
\* supersede under a lock, and evaluate reads published versions only.
THEOREM OneVersionGovernsInvariant == ConfigSpec => []OneVersionGoverns
<1>1. ConfigInv => OneVersionGoverns
  BY DEF ConfigInv, Governed, OneVersionGoverns, With, Latest
<1> QED
  BY <1>1, ConfigInvariant, PTL

\* The counter of a rule set or an entry counts its changes: one for each version that
\* was created and one for each that was published.
CountInv ==
  /\ \A s \in Subjects : \A v \in published[s] : status[s][v] # "draft"
  /\ \A s \in Counted : counter[s] = Latest(s) + Cardinality(published[s])
  /\ \A s \in Settings : counter[s] = 0

LEMMA CountInitially == ConfigInit => CountInv
  BY FS_EmptySet, ConfigurationAssumption DEF ConfigInit, CountInv, Latest, Subjects

LEMMA PublishedIsFinite ==
  ASSUME ConfigInv, NEW s \in Subjects
  PROVE  /\ Latest(s) \in Nat /\ Latest(s) <= MaxVersions
         /\ published[s] \subseteq 1..Latest(s) /\ IsFiniteSet(published[s])
         /\ Cardinality(published[s]) \in Nat /\ Cardinality(published[s]) <= Latest(s)
<1>1. /\ Latest(s) \in Nat /\ Latest(s) <= MaxVersions
      /\ published[s] \subseteq 1..Latest(s)
  BY DEF ConfigInv, Governed, Latest
<1>2. IsFiniteSet(1..Latest(s)) /\ Cardinality(1..Latest(s)) = Latest(s)
  BY <1>1, FS_Interval
<1>3. IsFiniteSet(published[s]) /\ Cardinality(published[s]) <= Cardinality(1..Latest(s))
  BY <1>1, <1>2, FS_Subset
<1>4. Cardinality(published[s]) \in Nat
  BY <1>3, FS_CardinalityType
<1> QED
  BY <1>1, <1>2, <1>3, <1>4

LEMMA CountStep == ConfigInv /\ CountInv /\ [ConfigNext]_configVars => CountInv'
<1> SUFFICES ASSUME ConfigInv, CountInv, [ConfigNext]_configVars PROVE CountInv'
  OBVIOUS
<1>1. ASSUME UNCHANGED <<status, published, counter>> PROVE CountInv'
  BY <1>1 DEF CountInv, Latest
\* Only subject s has its versions and its counter changed.
<1>2. ASSUME NEW s \in Subjects,
             \A t \in Subjects \ {s} : /\ status'[t] = status[t] /\ published'[t] = published[t]
                                       /\ counter'[t] = counter[t],
             \A v \in published'[s] : status'[s][v] # "draft",
             s \in Counted => counter'[s] = Len(status'[s]) + Cardinality(published'[s]),
             s \notin Counted => counter'[s] = counter[s]
      PROVE  CountInv'
  <2>1. \A t \in Counted : counter'[t] = Len(status'[t]) + Cardinality(published'[t])
    BY <1>2 DEF CountInv, Latest, Subjects
  <2>2. \A t \in Settings : counter'[t] = 0
    BY <1>2, ConfigurationAssumption DEF CountInv, Subjects
  <2>3. \A t \in Subjects : \A v \in published'[t] : status'[t][v] # "draft"
    BY <1>2 DEF CountInv
  <2> QED
    BY <2>1, <2>2, <2>3 DEF CountInv, Latest
<1>3. ASSUME NEW s \in Counted, CreateSubject(s) PROVE CountInv'
  <2>1. s \in Subjects /\ Latest(s) = 0
    <3>1. s \in Subjects /\ ~(Latest(s) > 0)
      BY <1>3 DEF CreateSubject, Exists, Subjects
    <3> QED
      BY <3>1, PublishedIsFinite
  <2>2. published[s] = {}
    BY <2>1, PublishedIsFinite
  <2>3. /\ \A t \in Subjects \ {s} : /\ status'[t] = status[t] /\ published'[t] = published[t]
                                     /\ counter'[t] = counter[t]
        /\ status'[s] = <<"draft">> /\ published'[s] = {} /\ counter'[s] = 1
    BY <1>3, <2>1, <2>2 DEF CreateSubject, ConfigInv
  <2>4. counter'[s] = Len(status'[s]) + Cardinality(published'[s])
    BY <2>3, FS_EmptySet
  <2> QED
    BY <1>2, <2>1, <2>3, <2>4
<1>4. ASSUME NEW m \in Managers, NEW s \in Subjects, SaveDraft(m, s) PROVE CountInv'
  <2> PICK n, k, pub : n = Latest(s) /\ k = Cardinality(pub) /\ pub = published[s]
    OBVIOUS
  <2> PICK old : old = Supersede(s, "draft")
    OBVIOUS
  <2> PICK versions : versions = Append(old, "draft")
    OBVIOUS
  <2>1. n \in Nat /\ k \in Nat /\ pub \subseteq 1..n
    BY PublishedIsFinite
  <2>2. /\ old \in Seq(VersionStatus) /\ Len(old) = n
        /\ \A v \in 1..n : old[v] # "draft"
    <3>1. status[s] \in Seq(VersionStatus)
      BY DEF ConfigInv
    <3> QED
      BY <3>1, SupersedeKeeps
  <2>3. Len(versions) = n + 1 /\ \A v \in 1..n : versions[v] # "draft"
    BY <2>1, <2>2
  <2>4. s \in Counted => counter[s] + 1 = Len(versions) + k
    BY <2>1, <2>3 DEF CountInv
  <2>5. /\ \A t \in Subjects \ {s} : /\ status'[t] = status[t] /\ published'[t] = published[t]
                                     /\ counter'[t] = counter[t]
        /\ status'[s] = versions /\ published'[s] = pub
        /\ counter'[s] = IF s \in Counted THEN counter[s] + 1 ELSE counter[s]
    BY <1>4 DEF SaveDraft, Counts, ConfigInv
  <2>6. \A v \in pub : versions[v] # "draft"
    BY <2>1, <2>3
  <2> QED
    BY <1>2, <2>4, <2>5, <2>6
<1>5. ASSUME NEW m \in Managers, NEW s \in Subjects, PublishVersion(m, s) PROVE CountInv'
  <2> PICK n, d, k, pub : /\ n = Latest(s) /\ d = screen[m][s].draft /\ k = Cardinality(pub)
                          /\ pub = published[s]
    OBVIOUS
  <2> PICK old : old = Supersede(s, "published")
    OBVIOUS
  <2> PICK versions : versions = [old EXCEPT ![d] = "published"]
    OBVIOUS
  <2>1. n \in Nat /\ k \in Nat /\ pub \subseteq 1..n /\ IsFiniteSet(pub)
    BY PublishedIsFinite
  <2>2. d \in 1..n /\ status[s][d] = "draft" /\ d \notin pub
    BY <1>5 DEF PublishVersion, Publishable, CountInv
  <2>3. /\ old \in Seq(VersionStatus) /\ Len(old) = n
        /\ \A v \in 1..n :
             old[v] = IF status[s][v] = "published" THEN "superseded" ELSE status[s][v]
    <3>1. status[s] \in Seq(VersionStatus)
      BY DEF ConfigInv
    <3> QED
      BY <3>1, SupersedeKeeps
  <2>4. Len(versions) = n /\ \A v \in 1..n : versions[v] = IF v = d THEN "published" ELSE old[v]
    BY <2>1, <2>2, <2>3
  <2>5. \A v \in pub \cup {d} : versions[v] # "draft"
    BY <2>1, <2>2, <2>3, <2>4 DEF CountInv
  <2>6. Cardinality(pub \cup {d}) = k + 1
    BY <2>1, <2>2, FS_AddElement
  <2>7. s \in Counted => counter[s] + 1 = Len(versions) + (k + 1)
    BY <2>1, <2>4 DEF CountInv
  <2>8. /\ \A t \in Subjects \ {s} : /\ status'[t] = status[t] /\ published'[t] = published[t]
                                     /\ counter'[t] = counter[t]
        /\ status'[s] = versions /\ published'[s] = pub \cup {d}
        /\ counter'[s] = IF s \in Counted THEN counter[s] + 1 ELSE counter[s]
    BY <1>5 DEF PublishVersion, Counts, ConfigInv
  <2>9. s \in Counted => counter'[s] = Len(status'[s]) + Cardinality(published'[s])
    BY <2>6, <2>7, <2>8
  <2>10. \A v \in published'[s] : status'[s][v] # "draft"
    BY <2>5, <2>8
  <2>11. s \notin Counted => counter'[s] = counter[s]
    BY <2>8
  <2>12. \A t \in Subjects \ {s} : /\ status'[t] = status[t] /\ published'[t] = published[t]
                                   /\ counter'[t] = counter[t]
    BY <2>8
  <2> QED
    BY <1>2, <2>9, <2>10, <2>11, <2>12
<1> QED
  BY <1>1, <1>3, <1>4, <1>5 DEF ConfigNext, ReadPolicy, Decide, OpenCounted, LoadVersions,
     OpenSettings, Opens, configVars

\* The number a command compares with its screen's counts the changes of a rule set or
\* an entry exactly: a screen whose number is still the counter's has missed no draft and
\* no publication (business_rule_sets.version and knowledge_entries.version).
THEOREM CounterCountsChanges ==
  ConfigSpec => [](\A s \in Counted : counter[s] = Latest(s) + Cardinality(published[s]))
<1>1. ConfigInit => ConfigInv /\ CountInv
  BY ConfigInitially, CountInitially
<1>2. (ConfigInv /\ CountInv) /\ [ConfigNext]_configVars => (ConfigInv /\ CountInv)'
  BY ConfigStep, CountStep
<1>3. CountInv => \A s \in Counted : counter[s] = Latest(s) + Cardinality(published[s])
  BY DEF CountInv
<1> QED
  BY <1>1, <1>2, <1>3, PTL DEF ConfigSpec

LEMMA ConfigTypes == ConfigInv /\ CountInv => ConfigTypeOK
<1> SUFFICES ASSUME ConfigInv, CountInv PROVE ConfigTypeOK
  OBVIOUS
<1>1. ASSUME NEW s \in Subjects
      PROVE  /\ status[s] \in Seq(VersionStatus) /\ Latest(s) <= MaxVersions
             /\ published[s] \subseteq 1..Latest(s)
             /\ counter[s] \in 0..(2 * MaxVersions) /\ Number(s) <= 2 * MaxVersions
  <2>1. /\ Latest(s) \in Nat /\ Latest(s) <= MaxVersions /\ published[s] \subseteq 1..Latest(s)
        /\ Cardinality(published[s]) \in Nat /\ Cardinality(published[s]) <= Latest(s)
    BY PublishedIsFinite
  <2>2. counter[s] = 0 \/ counter[s] = Latest(s) + Cardinality(published[s])
    BY DEF CountInv, Subjects
  <2>3. counter[s] \in 0..(2 * MaxVersions) /\ Latest(s) <= 2 * MaxVersions
    BY <2>1, <2>2, ConfigurationAssumption
  <2>4. status[s] \in Seq(VersionStatus)
    BY DEF ConfigInv
  <2> QED
    BY <2>1, <2>3, <2>4 DEF Number
<1>2. counter \in [Subjects -> 0..(2 * MaxVersions)]
  BY <1>1 DEF ConfigInv
<1>3. ASSUME NEW m \in Managers, NEW s \in Subjects
      PROVE  screen[m][s] \in [step : {"closed", "loading", "open"},
               expected : 0..(2 * MaxVersions), draft : 0..MaxVersions, live : 0..MaxVersions]
  <2>1. screen[m][s] \in View /\ screen[m][s].expected <= Number(s) /\ Number(s) \in Nat
    BY DEF ConfigInv, Shows, Number, Latest
  <2>2. screen[m][s].expected \in 0..(2 * MaxVersions)
    BY <1>1, <2>1, ConfigurationAssumption DEF View
  <2> QED
    BY <2>1, <2>2 DEF View
<1>4. screen \in [Managers -> [Subjects ->
        [step : {"closed", "loading", "open"}, expected : 0..(2 * MaxVersions),
         draft : 0..MaxVersions, live : 0..MaxVersions]]]
  BY <1>3 DEF ConfigInv
<1>5. \A s \in Subjects : published[s] \subseteq 1..MaxVersions
  <2> TAKE s \in Subjects
  <2>1. Latest(s) \in Nat /\ Latest(s) <= MaxVersions /\ published[s] \subseteq 1..Latest(s)
    BY PublishedIsFinite
  <2> QED
    BY <2>1, ConfigurationAssumption
<1>6. pricing \in [Quotes -> [Counted -> 0..MaxVersions]]
  <2>1. ASSUME NEW q \in Quotes, NEW s \in Counted
        PROVE  pricing[q][s] \in 0..MaxVersions
    <3>1. pricing[q][s] = 0 \/ pricing[q][s] \in 1..MaxVersions
      BY <1>5 DEF ConfigInv, Subjects
    <3> QED
      BY <3>1, ConfigurationAssumption
  <2> QED
    BY <2>1 DEF ConfigInv
<1>7. decisions \subseteq [subject : Counted, version : 1..MaxVersions]
  BY <1>5 DEF ConfigInv, Subjects
<1> QED
  BY <1>1, <1>2, <1>4, <1>6, <1>7 DEF ConfigTypeOK

\* The version a command supersedes is on the screen of the command, unless it is a
\* published one that the history has lost.
LEMMA SupersededIsShown ==
  ASSUME ConfigInv, NEW m \in Managers, NEW s \in Subjects,
         SaveDraft(m, s) \/ PublishVersion(m, s),
         NEW v \in 1..Latest(s), status[s][v] # "superseded", status'[s][v] = "superseded"
  PROVE  \/ /\ screen[m][s] # screen'[m][s]
            /\ v \in {screen[m][s].draft, screen[m][s].live}
         \/ status[s][v] = "published" /\ v \notin Listed(s)
<1> DEFINE x == screen[m][s]
           n == Latest(s)
<1>0. /\ status[s] \in Seq(VersionStatus) /\ Governed(status[s], published[s])
      /\ n = Len(status[s]) /\ n \in Nat /\ n <= MaxVersions
      /\ x \in View /\ Shows(x, s)
  <2>1. /\ status[s] \in Seq(VersionStatus) /\ Governed(status[s], published[s])
        /\ x \in View /\ Shows(x, s)
    BY DEF ConfigInv
  <2> QED
    BY <2>1 DEF Latest, Governed
<1>1. x.step = "open" /\ x.expected = Number(s)
  BY DEF SaveDraft, PublishVersion, Current, Number
<1>2. screen' = [screen EXCEPT ![m][s] = NoScreen]
  BY DEF SaveDraft, PublishVersion
<1>3. screen'[m][s] = NoScreen
  <2>1. screen[m] \in [Subjects -> View]
    BY DEF ConfigInv
  <2> QED
    BY <1>2, <2>1 DEF ConfigInv
<1>4. x # screen'[m][s]
  BY <1>1, <1>3 DEF NoScreen
<1>5. status[s][v] = "draft" => v \in Listed(s)
  BY <1>0, ConfigurationAssumption DEF Listed, Governed
<1>6. CASE SaveDraft(m, s)
  <2>1. status'[s] = Append(Supersede(s, "draft"), "draft")
    <3>1. status' = [status EXCEPT ![s] = Append(Supersede(s, "draft"), "draft")]
      BY <1>6 DEF SaveDraft
    <3> QED
      BY <3>1 DEF ConfigInv
  <2>2. status'[s][v] = IF status[s][v] = "draft" THEN "superseded" ELSE status[s][v]
    <3> DEFINE old == Supersede(s, "draft")
    <3>1. /\ old \in Seq(VersionStatus) /\ Len(old) = Latest(s)
          /\ old[v] = IF status[s][v] = "draft" THEN "superseded" ELSE status[s][v]
      BY <1>0, SupersedeKeeps
    <3> HIDE DEF old
    <3>2. Append(old, "draft")[v] = old[v]
      BY <3>1
    <3> QED
      BY <2>1, <3>1, <3>2 DEF old
  <2>3. status[s][v] = "draft"
    BY <2>2
  <2>4. With(s, "draft") # {}
    BY <2>3 DEF With
  <2> QED
    BY <1>0, <1>1, <1>4, <1>5, <2>3, <2>4, ShownIsIt DEF Shows
<1>7. CASE PublishVersion(m, s)
  <2>1. /\ status'[s] = [Supersede(s, "published") EXCEPT ![x.draft] = "published"]
        /\ x.draft \in 1..n /\ status[s][x.draft] = "draft"
    <3>1. status' = [status EXCEPT ![s] =
                       [Supersede(s, "published") EXCEPT ![x.draft] = "published"]]
      BY <1>7 DEF PublishVersion
    <3>2. status'[s] = [Supersede(s, "published") EXCEPT ![x.draft] = "published"]
      <4> HIDE DEF x
      <4> QED
        BY <3>1 DEF ConfigInv
    <3> QED
      BY <1>7, <3>2 DEF PublishVersion, Publishable
  <2>2. CASE v = x.draft
    BY <1>4, <2>2
  <2>3. CASE v # x.draft
    <3>1. status'[s][v] = Supersede(s, "published")[v]
      <4>1. Supersede(s, "published") \in Seq(VersionStatus)
        BY <1>0, SupersedeKeeps
      <4> HIDE DEF x
      <4> QED
        BY <2>1, <2>3, <4>1
    <3>2. status[s][v] = "published"
      BY <1>0, <3>1, SupersedeKeeps
    <3>3. With(s, "draft") # {}
      BY <2>1 DEF With
    <3> QED
      BY <1>0, <1>1, <1>4, <1>5, <3>2, <3>3, ShownIsIt DEF Shows
  <2> QED
    BY <2>2, <2>3
<1> QED
  BY <1>6, <1>7

\* No draft is superseded by a manager who had not seen it, and no published version
\* that the history still lists (NothingReplacedUnseen), however many versions there are
\* and however few the history lists: the numbers that saveDraft and publish of the three
\* configuration services compare have moved whenever the versions a command supersedes
\* have, and a draft is always the newest version.
THEOREM NothingIsReplacedUnseen == ConfigSpec => NothingReplacedUnseen
<1>1. ASSUME ConfigInv, [ConfigNext]_configVars
      PROVE  [\A s \in Subjects : \A v \in 1..Latest(s) :
                (status[s][v] # "superseded" /\ status'[s][v] = "superseded") =>
                  \/ \E m \in Managers : /\ screen[m][s] # screen'[m][s]
                                        /\ v \in {screen[m][s].draft, screen[m][s].live}
                  \/ status[s][v] = "published" /\ v \notin Listed(s)]_configVars
  <2> SUFFICES ASSUME NEW s \in Subjects, NEW v \in 1..Latest(s),
                      status[s][v] # "superseded", status'[s][v] = "superseded"
               PROVE  \/ \E m \in Managers : /\ screen[m][s] # screen'[m][s]
                                             /\ v \in {screen[m][s].draft, screen[m][s].live}
                      \/ status[s][v] = "published" /\ v \notin Listed(s)
    OBVIOUS
  <2>1. status'[s] # status[s]
    OBVIOUS
  <2>2. PICK m \in Managers : SaveDraft(m, s) \/ PublishVersion(m, s)
    <3>1. CASE \E t \in Counted : CreateSubject(t)
      <4>1. PICK t \in Counted : CreateSubject(t)
        BY <3>1
      <4>2. t = s
        <5>1. /\ status' = [status EXCEPT ![t] = <<"draft">>]
              /\ status \in [Subjects -> Seq(VersionStatus)]
          BY <1>1, <4>1 DEF CreateSubject, ConfigInv
        <5> QED
          BY <2>1, <5>1
      <4>3. Latest(s) \in Nat /\ ~(Latest(s) > 0)
        BY <4>1, <4>2 DEF CreateSubject, Exists, ConfigInv, Latest
      <4> QED
        BY <4>3
    <3>2. ASSUME NEW m \in Managers, NEW t \in Subjects,
                 SaveDraft(m, t) \/ PublishVersion(m, t)
          PROVE  SaveDraft(m, s) \/ PublishVersion(m, s)
      <4>1. t = s
        <5>1. \E w : status' = [status EXCEPT ![t] = w]
          BY <3>2, Zenon DEF SaveDraft, PublishVersion
        <5> QED
          BY <1>1, <2>1, <5>1 DEF ConfigInv
      <4> QED
        BY <3>2, <4>1
    <3>3. CASE UNCHANGED status
      BY <2>1, <3>3
    <3> QED
      BY <1>1, <3>1, <3>2, <3>3 DEF ConfigNext, ReadPolicy, Decide, OpenCounted, LoadVersions,
         OpenSettings, Opens, configVars
  <2> QED
    BY <1>1, <2>2, SupersededIsShown
<1> QED
  BY <1>1, ConfigInvariant, PTL DEF NothingReplacedUnseen, ConfigSpec

-----------------------------------------------------------------------------
\* InboundMessages.

DeliveryRow ==
  [step : {"idle", "next", "done"} \cup Holding, items : Seq(Item), at : Nat \ {0},
   customer : People \cup {NoOne}, sees : People \cup {NoOne}, skipped : BOOLEAN,
   answer : Answers]

InboundRows ==
  /\ from \in [Inbound -> Senders]
  /\ contact \in [Senders -> People \cup {NoOne}]
  /\ thread \in [Senders -> People \cup {NoOne}]
  /\ people \subseteq People
  /\ stored \in [Inbound -> SUBSET Contents]
  /\ jobs \in [Inbound -> {0, 1}]
  /\ touched \subseteq Senders
  /\ \A m \in Inbound : \/ stored[m] = {} /\ jobs[m] = 0
                        \/ (\E c \in Contents : stored[m] = {c}) /\ jobs[m] = 1
  /\ \A s \in Senders \ touched : contact[s] = thread[s]

IsKept(it) ==
  /\ it.message \in Inbound
  /\ stored[it.message] = {it.content}
  /\ jobs[it.message] = 1

Clashes(it) ==
  /\ it.message \in Inbound
  /\ \/ stored[it.message] # {it.content} /\ stored[it.message] # {}
     \/ from[it.message] \in touched

\* What is true of a request with row r, whatever the others do: what it has found
\* under its locks, and what it has handled.
DeliveryRequestOK(r) ==
  /\ r \in DeliveryRow
  /\ r.step \in Holding =>
       /\ r.at \in DOMAIN r.items
       /\ r.items[r.at].message \in Inbound
       /\ stored[r.items[r.at].message] = {}
  /\ r.step \in {"owned", "placed"} /\ from[r.items[r.at].message] \notin touched =>
       r.customer = contact[from[r.items[r.at].message]]
  /\ r.step = "placed" /\ from[r.items[r.at].message] \notin touched =>
       r.sees = thread[from[r.items[r.at].message]]
  /\ r.step \in {"next"} \cup Holding /\ ~r.skipped =>
       \A i \in DOMAIN r.items : i < r.at => IsKept(r.items[i])
  /\ r.step # "done" => r.answer = "none"
  /\ r.answer = "ok" /\ ~r.skipped => \A i \in DOMAIN r.items : IsKept(r.items[i])
  /\ r.answer = "conflict" => \E i \in DOMAIN r.items : Clashes(r.items[i])

\* The advisory locks have one holder each.
OneHolder ==
  \A d, e \in Deliveries : d # e =>
    /\ delivery[d].step \in Holding /\ delivery[e].step \in Holding =>
         Handling(d).message # Handling(e).message
    /\ delivery[d].step \in {"owned", "placed"} /\ delivery[e].step \in {"owned", "placed"} =>
         Sender(d) # Sender(e)

InboundInv ==
  /\ InboundRows
  /\ delivery \in [Deliveries -> DeliveryRow]
  /\ \A d \in Deliveries : DeliveryRequestOK(delivery[d])
  /\ OneHolder

LEMMA InboundInitially == InboundInit => InboundInv
<1> SUFFICES ASSUME InboundInit PROVE InboundInv
  OBVIOUS
<1>1. NoDelivery \in DeliveryRow
  BY DEF NoDelivery, DeliveryRow, Answers
<1>2. DeliveryRequestOK(NoDelivery)
  BY <1>1 DEF DeliveryRequestOK, NoDelivery, Holding
<1>3. \A d \in Deliveries : delivery[d] = NoDelivery
  BY DEF InboundInit
<1>4. OneHolder
  BY <1>3 DEF OneHolder, Holding, NoDelivery
<1>5. InboundRows
  BY DEF InboundInit, InboundRows
<1> QED
  BY <1>1, <1>2, <1>3, <1>4, <1>5 DEF InboundInv, InboundInit

\* The rows change so that a request that holds its locks notices nothing, and
\* what is kept or clashes stays so.
Unnoticed(r) ==
  /\ from' = from
  /\ touched \subseteq touched'
  /\ \A m \in Inbound : stored[m] # {} => stored'[m] = stored[m] /\ jobs'[m] = jobs[m]
  /\ r.step \in Holding => stored'[r.items[r.at].message] = stored[r.items[r.at].message]
  /\ r.step \in {"owned", "placed"} /\ from[r.items[r.at].message] \notin touched' =>
       /\ contact'[from[r.items[r.at].message]] = contact[from[r.items[r.at].message]]
       /\ thread'[from[r.items[r.at].message]] = thread[from[r.items[r.at].message]]

LEMMA RequestStaysOK ==
  ASSUME NEW r, DeliveryRequestOK(r), Unnoticed(r)
  PROVE  DeliveryRequestOK(r)'
<1>1. \A it : IsKept(it) => IsKept(it)'
  BY DEF IsKept, Unnoticed
<1>2. \A it : Clashes(it) => Clashes(it)'
  BY DEF Clashes, Unnoticed
<1>3. /\ r \in DeliveryRow
      /\ r.step \in Holding =>
           /\ r.at \in DOMAIN r.items
           /\ r.items[r.at].message \in Inbound
           /\ stored'[r.items[r.at].message] = {}
      /\ r.step # "done" => r.answer = "none"
  BY DEF DeliveryRequestOK, Unnoticed
<1>4. r.step \in {"owned", "placed"} /\ from'[r.items[r.at].message] \notin touched' =>
        r.customer = contact'[from'[r.items[r.at].message]]
  BY DEF DeliveryRequestOK, Unnoticed
<1>5. r.step = "placed" /\ from'[r.items[r.at].message] \notin touched' =>
        r.sees = thread'[from'[r.items[r.at].message]]
  BY DEF DeliveryRequestOK, Unnoticed
<1>6. r.step \in {"next"} \cup Holding /\ ~r.skipped =>
        \A i \in DOMAIN r.items : i < r.at => IsKept(r.items[i])'
  BY <1>1 DEF DeliveryRequestOK
<1>7. /\ r.answer = "ok" /\ ~r.skipped => \A i \in DOMAIN r.items : IsKept(r.items[i])'
      /\ r.answer = "conflict" => \E i \in DOMAIN r.items : Clashes(r.items[i])'
  BY <1>1, <1>2 DEF DeliveryRequestOK
<1> QED
  BY <1>3, <1>4, <1>5, <1>6, <1>7 DEF DeliveryRequestOK

\* One request moves on with row n, and the others do not notice.
LEMMA DeliveryRequestMoves ==
  ASSUME InboundInv, NEW d \in Deliveries, NEW n, delivery' = [delivery EXCEPT ![d] = n],
         InboundRows', DeliveryRequestOK(n)',
         \A e \in Deliveries \ {d} : Unnoticed(delivery[e]),
         \A e \in Deliveries \ {d} :
           /\ n.step \in Holding /\ delivery[e].step \in Holding =>
                n.items[n.at].message # Handling(e).message
           /\ n.step \in {"owned", "placed"} /\ delivery[e].step \in {"owned", "placed"} =>
                from'[n.items[n.at].message] # Sender(e),
         from' = from
  PROVE  InboundInv'
<1>1. n \in DeliveryRow /\ delivery \in [Deliveries -> DeliveryRow]
  BY DEF DeliveryRequestOK, InboundInv
<1>2. delivery'[d] = n /\ \A e \in Deliveries \ {d} : delivery'[e] = delivery[e]
  BY <1>1
<1>3. ASSUME NEW e \in Deliveries
      PROVE  DeliveryRequestOK(delivery[e])'
  <2>1. CASE e = d
    BY <1>2, <2>1
  <2>2. CASE e # d
    <3>1. PICK r : r = delivery[e]
      OBVIOUS
    <3>2. DeliveryRequestOK(r)'
      BY <2>2, <3>1, RequestStaysOK DEF InboundInv
    <3> QED
      BY <1>2, <2>2, <3>1, <3>2
  <2> QED
    BY <2>1, <2>2
<1>4. OneHolder'
  <2> SUFFICES ASSUME NEW b \in Deliveries, NEW e \in Deliveries, b # e
      PROVE  /\ delivery'[b].step \in Holding /\ delivery'[e].step \in Holding =>
                  Handling(b)'.message # Handling(e)'.message
             /\ delivery'[b].step \in {"owned", "placed"}
                  /\ delivery'[e].step \in {"owned", "placed"} => Sender(b)' # Sender(e)'
    BY DEF OneHolder
  <2>1. CASE b # d /\ e # d
    BY <1>2, <2>1 DEF InboundInv, OneHolder, Handling, Sender
  <2>2. CASE b = d
    BY <1>2, <2>2 DEF Handling, Sender
  <2>3. CASE e = d
    BY <1>2, <2>3 DEF Handling, Sender
  <2> QED
    BY <2>1, <2>2, <2>3
<1> QED
  BY <1>1, <1>3, <1>4 DEF InboundInv

\* A request moves on and writes nothing.
LEMMA RequestReads ==
  ASSUME InboundInv, NEW d \in Deliveries, NEW n, StepTo(d, n), UNCHANGED database,
         DeliveryRequestOK(n),
         \A e \in Deliveries \ {d} :
           /\ n.step \in Holding /\ delivery[e].step \in Holding =>
                n.items[n.at].message # Handling(e).message
           /\ n.step \in {"owned", "placed"} /\ delivery[e].step \in {"owned", "placed"} =>
                from[n.items[n.at].message] # Sender(e)
  PROVE  InboundInv'
<1>1. InboundRows'
  BY DEF InboundInv, InboundRows, database
<1>2. \A r : Unnoticed(r)
  BY DEF Unnoticed, database
<1>3. DeliveryRequestOK(n)'
  BY <1>2, RequestStaysOK
<1>4. delivery' = [delivery EXCEPT ![d] = n] /\ from' = from
  BY DEF StepTo, database
<1> QED
  BY <1>1, <1>2, <1>3, <1>4, DeliveryRequestMoves

LEMMA EndsKeeps ==
  ASSUME InboundInv, NEW d \in Deliveries, NEW answer \in Answers, Ends(d, answer),
         answer = "ok" /\ ~delivery[d].skipped =>
           \A i \in DOMAIN delivery[d].items : IsKept(delivery[d].items[i]),
         answer = "conflict" =>
           \E i \in DOMAIN delivery[d].items : Clashes(delivery[d].items[i])
  PROVE  InboundInv'
<1>1. PICK s : s = delivery[d]
  OBVIOUS
<1>2. PICK n : n = [s EXCEPT !.step = "done", !.answer = answer, !.at = 1,
                             !.customer = NoOne, !.sees = NoOne]
  OBVIOUS
<1>3. s \in DeliveryRow
  BY <1>1 DEF InboundInv
<1>4. n \in DeliveryRow
  <2>1. 1 \in Nat \ {0}
    OBVIOUS
  <2> QED
    BY <1>2, <1>3, <2>1, Zenon DEF DeliveryRow
<1>5. n.step = "done" /\ n.answer = answer /\ n.items = s.items /\ n.skipped = s.skipped
  BY <1>2, <1>3 DEF DeliveryRow
<1>6. DeliveryRequestOK(n)
  BY <1>1, <1>4, <1>5 DEF DeliveryRequestOK, Holding
<1>7. StepTo(d, n) /\ UNCHANGED database
  BY <1>1, <1>2 DEF Ends
<1> QED
  BY <1>5, <1>6, <1>7, RequestReads DEF Holding

\* The item a request handles.
LEMMA NextItem ==
  ASSUME InboundInv, NEW d \in Deliveries, HasNext(d)
  PROVE  /\ delivery[d].at \in DOMAIN delivery[d].items
         /\ Handling(d) \in Item
         /\ Handling(d).message # Unusable => Handling(d).message \in Inbound
<1>1. PICK r : r = delivery[d]
  OBVIOUS
<1>2. r.items \in Seq(Item) /\ r.at \in Nat \ {0} /\ r.at <= Len(r.items)
  BY <1>1 DEF InboundInv, DeliveryRow, HasNext
<1>3. r.at \in DOMAIN r.items /\ r.items[r.at] \in Item
  BY <1>2
<1>4. r.items[r.at].message # Unusable => r.items[r.at].message \in Inbound
  BY <1>3 DEF Item
<1> QED
  BY <1>1, <1>3, <1>4 DEF Handling

\* A request passes over an item, or has handled it.
LEMMA HandledNext ==
  ASSUME NEW s \in DeliveryRow, NEW skipped \in BOOLEAN
  PROVE  LET n == [s EXCEPT !.step = "next", !.at = @ + 1, !.customer = NoOne,
                            !.skipped = @ \/ skipped]
         IN  /\ n \in DeliveryRow /\ n.step = "next" /\ n.at = s.at + 1
             /\ n.items = s.items /\ n.skipped = (s.skipped \/ skipped) /\ n.answer = s.answer
<1>1. s.at + 1 \in Nat \ {0} /\ s.skipped \in BOOLEAN
  BY DEF DeliveryRow
<1>2. (s.skipped \/ skipped) \in BOOLEAN
  BY <1>1, Zenon
<1> QED
  BY <1>1, <1>2, Zenon DEF DeliveryRow

LEMMA PassesKeeps ==
  ASSUME InboundInv, NEW d \in Deliveries, NEW skipped \in BOOLEAN, Passes(d, skipped),
         delivery[d].step = "next", ~skipped => IsKept(Handling(d))
  PROVE  InboundInv'
<1>1. PICK s : s = delivery[d]
  OBVIOUS
<1>2. PICK n : n = [s EXCEPT !.step = "next", !.at = @ + 1, !.customer = NoOne,
                             !.skipped = @ \/ skipped]
  OBVIOUS
<1>3. s \in DeliveryRow /\ DeliveryRequestOK(s) /\ s.step = "next"
  BY <1>1 DEF InboundInv
<1>4. /\ n \in DeliveryRow /\ n.step = "next" /\ n.at = s.at + 1 /\ n.items = s.items
      /\ n.skipped = (s.skipped \/ skipped) /\ n.answer = s.answer
  BY <1>2, <1>3, HandledNext
<1>5. s.answer = "none"
  BY <1>3 DEF DeliveryRequestOK
<1>6. ~n.skipped => \A i \in DOMAIN n.items : i < n.at => IsKept(n.items[i])
  <2> SUFFICES ASSUME ~n.skipped, NEW i \in DOMAIN s.items, i < s.at + 1
               PROVE  IsKept(s.items[i])
    BY <1>4
  <2>1. ~s.skipped /\ ~skipped
    BY <1>4
  <2>2. i \in Nat /\ s.at \in Nat
    BY <1>3 DEF DeliveryRow
  <2>3. CASE i < s.at
    BY <1>3, <2>1, <2>3 DEF DeliveryRequestOK
  <2>4. CASE i = s.at
    BY <1>1, <2>1, <2>4 DEF Handling
  <2> QED
    BY <2>2, <2>3, <2>4
<1>7. DeliveryRequestOK(n)
  BY <1>4, <1>5, <1>6 DEF DeliveryRequestOK, Holding
<1>8. StepTo(d, n) /\ UNCHANGED database
  BY <1>1, <1>2 DEF Passes
<1> QED
  BY <1>4, <1>7, <1>8, RequestReads DEF Holding

LEMMA DeliverKeeps ==
  ASSUME InboundInv, NEW d \in Deliveries, NEW items \in ItemLists, Deliver(d, items)
  PROVE  InboundInv'
<1>1. items \in Seq(Item)
  BY InboundAssumption DEF ItemLists
<1>2. PICK n : n = [NoDelivery EXCEPT !.step = "next", !.items = items]
  OBVIOUS
<1>3. /\ n \in DeliveryRow /\ n.step = "next" /\ n.at = 1 /\ n.items = items
      /\ n.answer = "none"
  <2>1. NoDelivery \in DeliveryRow /\ NoDelivery.at = 1 /\ NoDelivery.answer = "none"
    BY DEF NoDelivery, DeliveryRow, Answers
  <2> QED
    BY <1>1, <1>2, <2>1, Zenon DEF DeliveryRow
<1>4. \A i \in DOMAIN items : ~(i < 1)
  BY <1>1
<1>5. DeliveryRequestOK(n)
  BY <1>3, <1>4 DEF DeliveryRequestOK, Holding
<1>6. StepTo(d, n) /\ UNCHANGED database
  BY <1>2 DEF Deliver
<1> QED
  BY <1>3, <1>5, <1>6, RequestReads DEF Holding

LEMMA LockMessageKeeps ==
  ASSUME InboundInv, NEW d \in Deliveries, LockMessage(d)
  PROVE  InboundInv'
<1>1. PICK s : s = delivery[d]
  OBVIOUS
<1>2. PICK it : it = s.items[s.at]
  OBVIOUS
<1>3. /\ HasNext(d) /\ Handling(d) = it /\ s.at \in DOMAIN s.items /\ s.step = "next"
      /\ it.message \in Inbound
  BY <1>1, <1>2, NextItem DEF LockMessage, HasNext, Handling
<1>4. s \in DeliveryRow /\ DeliveryRequestOK(s)
  BY <1>1 DEF InboundInv
<1>5. CASE stored[it.message] = {}
  <2>1. PICK n : n = [s EXCEPT !.step = "locked"]
    OBVIOUS
  <2>2. "locked" \in {"idle", "next", "done"} \cup Holding
    BY DEF Holding
  <2>3. /\ n \in DeliveryRow /\ n.step = "locked" /\ n.items = s.items /\ n.at = s.at
        /\ n.skipped = s.skipped /\ n.answer = s.answer
    BY <1>4, <2>1, <2>2, Zenon DEF DeliveryRow
  <2>4. DeliveryRequestOK(n)
    BY <1>2, <1>3, <1>4, <1>5, <2>3 DEF DeliveryRequestOK, Holding
  <2>5. StepTo(d, n) /\ UNCHANGED database
    BY <1>1, <1>3, <1>5, <2>1 DEF LockMessage
  <2>6. \A e \in Deliveries : delivery[e].step \in Holding => it.message # Handling(e).message
    BY <1>3 DEF LockMessage, HoldsMessage
  <2> QED
    BY <1>2, <2>3, <2>4, <2>5, <2>6, RequestReads
<1>6. CASE stored[it.message] # {} /\ stored[it.message] = {it.content}
  <2>1. IsKept(it)
    BY <1>3, <1>6 DEF IsKept, InboundInv, InboundRows
  <2>2. Passes(d, FALSE)
    BY <1>3, <1>6 DEF LockMessage
  <2> QED
    BY <1>1, <1>3, <2>1, <2>2, PassesKeeps
<1>7. CASE stored[it.message] # {} /\ stored[it.message] # {it.content}
  <2>1. Clashes(it)
    BY <1>3, <1>7 DEF Clashes
  <2>2. Ends(d, "conflict")
    BY <1>3, <1>7 DEF LockMessage
  <2> QED
    BY <1>1, <1>2, <1>3, <2>1, <2>2, EndsKeeps DEF Answers
<1> QED
  BY <1>5, <1>6, <1>7

\* A request in its transaction reads on.
LEMMA FindsKeeps ==
  ASSUME InboundInv, NEW d \in Deliveries, FindCustomer(d) \/ FindThread(d)
  PROVE  InboundInv'
<1>1. PICK s : s = delivery[d]
  OBVIOUS
<1>2. s \in DeliveryRow /\ DeliveryRequestOK(s) /\ s.step \in Holding
  BY <1>1 DEF InboundInv, FindCustomer, FindThread, Holding
<1>3. PICK m, c : m = s.items[s.at].message /\ c = from[m]
  OBVIOUS
<1>4. m \in Inbound /\ c \in Senders /\ Sender(d) = c /\ Handling(d).message = m
  BY <1>1, <1>2, <1>3 DEF InboundInv, InboundRows, DeliveryRequestOK, Sender, Handling
<1>5. \A e \in Deliveries \ {d} : delivery[e].step \in Holding => m # Handling(e).message
  BY <1>1, <1>2, <1>4 DEF InboundInv, OneHolder
<1>6. contact[c] \in People \cup {NoOne} /\ thread[c] \in People \cup {NoOne}
  BY <1>4 DEF InboundInv, InboundRows
<1>7. CASE FindCustomer(d)
  <2>1. PICK n : n = [s EXCEPT !.step = "owned", !.customer = contact[c]]
    OBVIOUS
  <2>2. "owned" \in {"idle", "next", "done"} \cup Holding
    BY DEF Holding
  <2>3. /\ n \in DeliveryRow /\ n.step = "owned" /\ n.items = s.items /\ n.at = s.at
        /\ n.skipped = s.skipped /\ n.answer = s.answer /\ n.customer = contact[c]
    BY <1>2, <1>6, <2>1, <2>2, Zenon DEF DeliveryRow
  <2>4. DeliveryRequestOK(n)
    BY <1>2, <1>3, <2>3 DEF DeliveryRequestOK, Holding
  <2>5. StepTo(d, n) /\ UNCHANGED database
    BY <1>1, <1>4, <1>7, <2>1 DEF FindCustomer
  <2>6. \A e \in Deliveries : delivery[e].step \in {"owned", "placed"} => c # Sender(e)
    BY <1>4, <1>7 DEF FindCustomer, HoldsContact
  <2> QED
    BY <1>3, <1>5, <2>3, <2>4, <2>5, <2>6, RequestReads
<1>8. CASE FindThread(d)
  <2>1. PICK n : n = [s EXCEPT !.step = "placed", !.sees = thread[c]]
    OBVIOUS
  <2>2. "placed" \in {"idle", "next", "done"} \cup Holding
    BY DEF Holding
  <2>3. /\ n \in DeliveryRow /\ n.step = "placed" /\ n.items = s.items /\ n.at = s.at
        /\ n.skipped = s.skipped /\ n.answer = s.answer /\ n.customer = s.customer
        /\ n.sees = thread[c]
    BY <1>2, <1>6, <2>1, <2>2, Zenon DEF DeliveryRow
  <2>4. s.step = "owned"
    BY <1>1, <1>8 DEF FindThread
  <2>5. DeliveryRequestOK(n)
    BY <1>2, <1>3, <2>3, <2>4 DEF DeliveryRequestOK, Holding
  <2>6. StepTo(d, n) /\ UNCHANGED database
    BY <1>1, <1>4, <1>8, <2>1 DEF FindThread
  <2>7. \A e \in Deliveries \ {d} : delivery[e].step \in {"owned", "placed"} => c # Sender(e)
    BY <1>1, <1>4, <2>4 DEF InboundInv, OneHolder
  <2> QED
    BY <1>3, <1>5, <2>3, <2>5, <2>6, <2>7, RequestReads
<1> QED
  BY <1>7, <1>8

LEMMA StoreMessageKeeps ==
  ASSUME InboundInv, NEW d \in Deliveries, NEW c \in People, StoreMessage(d, c)
  PROVE  InboundInv'
<1>1. PICK s : s = delivery[d]
  OBVIOUS
<1>2. s \in DeliveryRow /\ DeliveryRequestOK(s) /\ s.step = "placed"
  BY <1>1 DEF InboundInv, StoreMessage
<1>3. PICK it, m, p : it = s.items[s.at] /\ m = it.message /\ p = from[m]
  OBVIOUS
<1>4. /\ m \in Inbound /\ p \in Senders /\ Sender(d) = p /\ Handling(d) = it
      /\ s.at \in DOMAIN s.items /\ stored[m] = {}
  BY <1>1, <1>2, <1>3 DEF InboundInv, InboundRows, DeliveryRequestOK, Sender, Handling, Holding
<1>5. p \notin touched => s.customer = contact[p] /\ s.sees = thread[p]
  BY <1>2, <1>3 DEF DeliveryRequestOK
<1>6. p \notin touched => contact[p] = thread[p]
  BY <1>4 DEF InboundInv, InboundRows
<1> DEFINE taken == \/ s.customer = NoOne /\ contact[p] # NoOne
                    \/ s.sees = NoOne /\ thread[p] # NoOne
<1>7. CASE taken
  <2>1. Clashes(it)
    BY <1>3, <1>4, <1>5, <1>7 DEF Clashes
  <2>2. Ends(d, "conflict")
    BY <1>1, <1>3, <1>4, <1>7 DEF StoreMessage
  <2> QED
    BY <1>1, <1>3, <1>4, <2>1, <2>2, EndsKeeps DEF Answers
<1>8. CASE ~taken
  <2>1. PICK n : n = [s EXCEPT !.step = "next", !.at = @ + 1, !.customer = NoOne,
                               !.sees = NoOne]
    OBVIOUS
  <2>2. /\ n \in DeliveryRow /\ n.step = "next" /\ n.items = s.items /\ n.at = s.at + 1
        /\ n.skipped = s.skipped /\ n.answer = s.answer
    <3>1. s.at + 1 \in Nat \ {0}
      BY <1>2 DEF DeliveryRow
    <3> QED
      BY <1>2, <2>1, <3>1, Zenon DEF DeliveryRow
  <2>3. /\ people' = people \cup {c}
        /\ contact' = IF s.customer = NoOne THEN [contact EXCEPT ![p] = c] ELSE contact
        /\ thread' = IF thread[p] = NoOne THEN [thread EXCEPT ![p] = c] ELSE thread
        /\ stored' = [stored EXCEPT ![m] = {it.content}]
        /\ jobs' = [jobs EXCEPT ![m] = @ + 1]
        /\ delivery' = [delivery EXCEPT ![d] = n]
        /\ UNCHANGED <<from, touched>>
    BY <1>1, <1>3, <1>4, <1>8, <2>1 DEF StoreMessage, StepTo
  <2>4. jobs[m] = 0 /\ it.content \in Contents
    <3>1. it \in Item
      BY <1>2, <1>3, <1>4 DEF DeliveryRow
    <3>2. jobs[m] = 0
      BY <1>4 DEF InboundInv, InboundRows
    <3>3. m # Unusable
      BY <1>4, InboundAssumption
    <3> QED
      BY <1>3, <3>1, <3>2, <3>3 DEF Item
  <2>5. stored'[m] = {it.content} /\ jobs'[m] = 1
    BY <1>4, <2>3, <2>4 DEF InboundInv, InboundRows
  <2>6. \A o \in Inbound \ {m} : stored'[o] = stored[o] /\ jobs'[o] = jobs[o]
    BY <2>3 DEF InboundInv, InboundRows
  <2>7. \A q \in Senders \ {p} : contact'[q] = contact[q] /\ thread'[q] = thread[q]
    BY <2>3 DEF InboundInv, InboundRows
  <2>8. p \notin touched => contact'[p] = thread'[p]
    <3>1. CASE s.customer = NoOne
      BY <1>4, <1>5, <1>6, <1>8, <2>3, <3>1 DEF InboundInv, InboundRows
    <3>2. CASE s.customer # NoOne
      BY <1>4, <1>5, <1>6, <1>8, <2>3, <3>2 DEF InboundInv, InboundRows
    <3> QED
      BY <3>1, <3>2
  <2>9. InboundRows'
    <3>1. stored' \in [Inbound -> SUBSET Contents] /\ jobs' \in [Inbound -> {0, 1}]
      <4>1. stored \in [Inbound -> SUBSET Contents] /\ jobs \in [Inbound -> {0, 1}]
        BY DEF InboundInv, InboundRows
      <4>2. stored' \in [Inbound -> SUBSET Contents]
        BY <2>3, <2>4, <4>1
      <4>3. jobs' = [jobs EXCEPT ![m] = 1]
        BY <1>4, <2>3, <2>4, <4>1
      <4> QED
        BY <4>1, <4>2, <4>3
    <3>2. /\ contact' \in [Senders -> People \cup {NoOne}]
          /\ thread' \in [Senders -> People \cup {NoOne}]
      BY <2>3 DEF InboundInv, InboundRows
    <3>3. \A o \in Inbound : \/ stored'[o] = {} /\ jobs'[o] = 0
                             \/ (\E x \in Contents : stored'[o] = {x}) /\ jobs'[o] = 1
      BY <2>4, <2>5, <2>6 DEF InboundInv, InboundRows
    <3>4. \A q \in Senders \ touched' : contact'[q] = thread'[q]
      BY <2>3, <2>7, <2>8 DEF InboundInv, InboundRows
    <3> QED
      BY <2>3, <3>1, <3>2, <3>3, <3>4 DEF InboundInv, InboundRows
  <2>10. ASSUME NEW e \in Deliveries \ {d}
         PROVE  Unnoticed(delivery[e])
    <3>1. PICK r : r = delivery[e]
      OBVIOUS
    <3>2. DeliveryRequestOK(r)
      BY <3>1 DEF InboundInv
    <3>3. r.step \in Holding => r.items[r.at].message \in Inbound \ {m}
      <4>1. r.step \in Holding => r.items[r.at].message \in Inbound
        BY <3>2 DEF DeliveryRequestOK
      <4>2. delivery[d].step \in Holding
        BY <1>1, <1>2 DEF Holding
      <4>3. r.step \in Holding => Handling(d).message # Handling(e).message
        BY <3>1, <4>2 DEF InboundInv, OneHolder
      <4> QED
        BY <1>3, <1>4, <3>1, <4>1, <4>3 DEF Handling
    <3>4. r.step \in {"owned", "placed"} => from[r.items[r.at].message] \in Senders \ {p}
      BY <1>1, <1>2, <1>4, <3>1, <3>3
         DEF InboundInv, InboundRows, OneHolder, Holding, Handling, Sender
    <3> QED
      BY <1>4, <2>3, <2>6, <2>7, <3>1, <3>3, <3>4 DEF Unnoticed
  <2>11. DeliveryRequestOK(n)'
    <3>1. ASSUME ~n.skipped, NEW i \in DOMAIN s.items, i < s.at + 1
          PROVE  IsKept(s.items[i])'
      <4>1. i \in Nat /\ s.at \in Nat
        BY <1>2 DEF DeliveryRow
      <4>2. CASE i < s.at
        <5>1. IsKept(s.items[i])
          BY <1>2, <2>2, <3>1, <4>2 DEF DeliveryRequestOK, Holding
        <5> QED
          BY <1>4, <2>6, <5>1 DEF IsKept
      <4>3. CASE i = s.at
        BY <1>3, <1>4, <2>5, <4>3 DEF IsKept
      <4> QED
        BY <3>1, <4>1, <4>2, <4>3
    <3>2. s.answer = "none"
      BY <1>2 DEF DeliveryRequestOK
    <3> QED
      BY <2>2, <3>1, <3>2 DEF DeliveryRequestOK, Holding
  <2> QED
    BY <2>2, <2>3, <2>9, <2>10, <2>11, DeliveryRequestMoves DEF Holding
<1> QED
  BY <1>7, <1>8

LEMMA MembersKeep ==
  ASSUME InboundInv, UNCHANGED members,
         \/ \E c \in People : CreateCustomer(c) \/ ReplaceContacts(c)
         \/ \E c \in People, s \in Senders : OpenThread(c, s)
  PROVE  InboundInv'
<1>1. InboundRows'
  <2>1. ASSUME NEW c \in People, CreateCustomer(c)
        PROVE  InboundRows'
    BY <2>1 DEF InboundInv, InboundRows, CreateCustomer, members
  <2>2. ASSUME NEW c \in People, ReplaceContacts(c)
        PROVE  InboundRows'
    BY <2>2 DEF InboundInv, InboundRows, ReplaceContacts, members
  <2>3. ASSUME NEW c \in People, NEW s \in Senders, OpenThread(c, s)
        PROVE  InboundRows'
    BY <2>3 DEF InboundInv, InboundRows, OpenThread, members
  <2> QED
    BY <2>1, <2>2, <2>3
<1>2. /\ touched \subseteq touched'
      /\ \A s \in Senders \ touched' : contact'[s] = contact[s] /\ thread'[s] = thread[s]
  BY DEF InboundInv, InboundRows, CreateCustomer, ReplaceContacts, OpenThread
<1>3. ASSUME NEW d \in Deliveries
      PROVE  DeliveryRequestOK(delivery[d])'
  <2>1. PICK r : r = delivery[d]
    OBVIOUS
  <2>2. DeliveryRequestOK(r)
    BY <2>1 DEF InboundInv
  <2>3. r.step \in {"owned", "placed"} => from[r.items[r.at].message] \in Senders
    BY <2>2 DEF InboundInv, InboundRows, DeliveryRequestOK, Holding
  <2>4. Unnoticed(r)
    BY <1>2, <2>3 DEF Unnoticed, members
  <2>5. DeliveryRequestOK(r)'
    BY <2>2, <2>4, RequestStaysOK
  <2> QED
    BY <2>1, <2>5 DEF members
<1>4. OneHolder'
  BY DEF InboundInv, OneHolder, Handling, Sender, members
<1> QED
  BY <1>1, <1>3, <1>4 DEF InboundInv, members

LEMMA InboundStep == InboundInv /\ [InboundNext]_inboundVars => InboundInv'
<1> SUFFICES ASSUME InboundInv, [InboundNext]_inboundVars PROVE InboundInv'
  OBVIOUS
<1>1. ASSUME NEW d \in Deliveries, AnswerOk(d)
      PROVE  InboundInv'
  <2>1. \A i \in DOMAIN delivery[d].items : i < delivery[d].at
    BY <1>1 DEF AnswerOk, InboundInv, DeliveryRow
  <2>2. ~delivery[d].skipped => \A i \in DOMAIN delivery[d].items : IsKept(delivery[d].items[i])
    BY <1>1, <2>1 DEF AnswerOk, InboundInv, DeliveryRequestOK
  <2> QED
    BY <1>1, <2>2, EndsKeeps DEF AnswerOk, Answers
<1>2. ASSUME NEW d \in Deliveries, RejectEntry(d) \/ Fails(d)
      PROVE  InboundInv'
  BY <1>2, EndsKeeps DEF RejectEntry, Fails, Answers
<1>3. ASSUME NEW d \in Deliveries, SkipEntry(d)
      PROVE  InboundInv'
  BY <1>3, PassesKeeps DEF SkipEntry, HasNext
<1>4. CASE UNCHANGED inboundVars
  <2>1. \A r : Unnoticed(r)
    BY <1>4 DEF Unnoticed, inboundVars
  <2>2. ASSUME NEW d \in Deliveries
        PROVE  DeliveryRequestOK(delivery[d])'
    <3>1. PICK r : r = delivery[d]
      OBVIOUS
    <3>2. DeliveryRequestOK(r)'
      BY <2>1, <3>1, RequestStaysOK DEF InboundInv
    <3> QED
      BY <1>4, <3>1, <3>2 DEF inboundVars
  <2> QED
    BY <1>4, <2>2 DEF InboundInv, InboundRows, OneHolder, Handling, Sender, inboundVars
<1>5. ASSUME NEW c \in People, CreateCustomer(c) \/ ReplaceContacts(c)
      PROVE  InboundInv'
  BY <1>5, MembersKeep DEF CreateCustomer, ReplaceContacts
<1>6. ASSUME NEW c \in People, NEW s \in Senders, OpenThread(c, s)
      PROVE  InboundInv'
  BY <1>6, MembersKeep DEF OpenThread
<1> QED
  BY <1>1, <1>2, <1>3, <1>4, <1>5, <1>6, DeliverKeeps, LockMessageKeeps, FindsKeeps,
     StoreMessageKeeps DEF InboundNext

\* A delivery that is answered with success has its messages stored, each with one
\* job; a conflict is real or a member's doing; and a sender nobody has touched has
\* one customer, for any number of deliveries, repetitions and members.
THEOREM DeliveriesAreKeptInvariant == InboundSpec => []DeliveriesAreKept
<1>1. ASSUME InboundInv
      PROVE  DeliveriesAreKept
  <2>1. ASSUME NEW d \in Deliveries, delivery[d].answer = "ok", ~delivery[d].skipped,
               NEW it \in ItemsOf(d)
        PROVE  stored[it.message] = {it.content} /\ jobs[it.message] = 1
    <3>1. PICK r : r = delivery[d]
      OBVIOUS
    <3>2. PICK i \in DOMAIN r.items : it = r.items[i]
      BY <1>1, <3>1 DEF ItemsOf, InboundInv, DeliveryRow
    <3>3. IsKept(r.items[i])
      BY <1>1, <2>1, <3>1, <3>2 DEF InboundInv, DeliveryRequestOK
    <3> QED
      BY <3>2, <3>3 DEF IsKept
  <2>2. ASSUME NEW d \in Deliveries, delivery[d].answer = "conflict"
        PROVE  \E it \in ItemsOf(d) :
                 /\ it.message # Unusable
                 /\ \/ stored[it.message] # {it.content} /\ stored[it.message] # {}
                    \/ from[it.message] \in touched
    <3>1. PICK r : r = delivery[d]
      OBVIOUS
    <3>2. PICK i \in DOMAIN r.items : Clashes(r.items[i])
      BY <1>1, <2>2, <3>1 DEF InboundInv, DeliveryRequestOK
    <3>3. r.items[i] \in ItemsOf(d)
      BY <1>1, <3>1, <3>2 DEF ItemsOf, InboundInv, DeliveryRow
    <3>4. r.items[i].message # Unusable
      BY <3>2, InboundAssumption DEF Clashes
    <3> QED
      BY <3>2, <3>3, <3>4 DEF Clashes
  <2>3. \A s \in Senders \ touched : contact[s] = thread[s]
    BY <1>1 DEF InboundInv, InboundRows
  <2> QED
    BY <2>1, <2>2, <2>3 DEF DeliveriesAreKept
<1>2. InboundInv => DeliveriesAreKept
  BY <1>1
<1> QED
  BY <1>2, InboundInitially, InboundStep, PTL DEF InboundSpec

-----------------------------------------------------------------------------
\* Pricing.

\* The order of products.
LEMMA TimesKeepsOrder ==
  ASSUME NEW a \in Int, NEW b \in Int, a >= b, NEW c \in Nat
  PROVE  a * c >= b * c
<1>1. a * c - b * c = (a - b) * c
  OBVIOUS
<1>2. \A x, y \in Nat : x * y >= 0
  OBVIOUS
<1>3. a - b \in Nat
  OBVIOUS
<1>4. a * c - b * c >= 0
  BY <1>1, <1>2, <1>3
<1> QED
  BY <1>4

\* percentageFloor rounds up to the minor unit: a price is at least the floor
\* exactly when it is at least the percentage.
LEMMA PercentageFloorIsExact ==
  ASSUME NEW list \in Nat, NEW hundredths \in Nat
  PROVE  \A price \in Nat :
           price >= PercentageFloor(list, hundredths) <=> price * 10000 >= list * hundredths
<1> DEFINE amount == list * hundredths
<1>1. amount \in Nat
  OBVIOUS
<1> HIDE DEF amount
<1>2. \A price \in Nat : price >= (amount + 9999) \div 10000 <=> price * 10000 >= amount
  BY <1>1
<1> QED
  BY <1>2 DEF PercentageFloor, amount

LEMMA PercentageFloorIsPrice ==
  ASSUME NEW list \in Nat, NEW hundredths \in Nat
  PROVE  PercentageFloor(list, hundredths) \in Nat
<1>1. list * hundredths \in Nat
  OBVIOUS
<1>2. \A amount \in Nat : (amount + 9999) \div 10000 \in Nat
  OBVIOUS
<1> QED
  BY <1>1, <1>2 DEF PercentageFloor

\* No percentage up to the whole is more than the list price.
LEMMA PercentageFloorBelowList ==
  ASSUME NEW list \in Nat, NEW hundredths \in Nat, hundredths <= 10000
  PROVE  PercentageFloor(list, hundredths) <= list
<1>2. list * 10000 >= list * hundredths
  <2>1. list * 10000 - list * hundredths = list * (10000 - hundredths)
    OBVIOUS
  <2>2. \A a, b \in Nat : a * b >= 0
    OBVIOUS
  <2> QED
    BY <2>1, <2>2
<1>3. PercentageFloor(list, hundredths) \in Nat
  BY PercentageFloorIsPrice
<1>4. list >= PercentageFloor(list, hundredths) <=> list * 10000 >= list * hundredths
  BY PercentageFloorIsExact
<1>5. list >= PercentageFloor(list, hundredths)
  BY <1>2, <1>4
<1> QED
  BY <1>3, <1>5

\* A policy keeps some share of the list price.
LEMMA PolicyTypes ==
  ASSUME NEW policy \in PricingPolicy
  PROVE  /\ policy.negotiable \in BOOLEAN
         /\ policy.type \in {"fixed", "percentage_of_list"}
         /\ policy.minimum \in Nat
         /\ 10000 - policy.maxDiscount \in Nat
         /\ 10000 - policy.maxDiscount <= 10000
         /\ policy.belowMinimum \in {"counter", "handoff", "reject"}
         /\ policy.whenNotNegotiable \in {"handoff", "reject"}
<1> DEFINE off == policy.maxDiscount
<1>1. off \in 0..10000
  BY DEF PricingPolicy
<1> HIDE DEF off
<1>2. 10000 - off \in Nat /\ 10000 - off <= 10000
  BY <1>1
<1>3. /\ policy.negotiable \in BOOLEAN
      /\ policy.type \in {"fixed", "percentage_of_list"}
      /\ policy.minimum \in Nat
      /\ policy.belowMinimum \in {"counter", "handoff", "reject"}
      /\ policy.whenNotNegotiable \in {"handoff", "reject"}
  BY DEF PricingPolicy
<1> QED
  BY <1>2, <1>3 DEF off

\* What a percentage is rounded to is at most half a hundredth below it.
LEMMA RoundedPercentage ==
  ASSUME NEW percentage \in Nat, NEW h \in BasisPoints(percentage)
  PROVE  h \in Nat /\ h * (2 * Precision) >= 2 * percentage - Precision
<1>1. Precision \in Nat \ {0}
  BY PricingAssumption
<1>2. percentage \div Precision \in Nat
  BY <1>1
<1>3. h \in Nat /\ 2 * (h * Precision - percentage) \in -Precision..Precision
  BY <1>2 DEF BasisPoints
<1> DEFINE k == h * Precision
<1>4. k \in Int /\ h * (2 * Precision) = 2 * k
  BY <1>1, <1>3
<1>5. 2 * (k - percentage) >= -Precision
  BY <1>1, <1>3
<1> HIDE DEF k
<1>6. 2 * k >= 2 * percentage - Precision
  BY <1>1, <1>4, <1>5
<1> QED
  BY <1>3, <1>4, <1>6

\* The least prices evaluatePriceDecision takes from a minimum are prices, and what is
\* not below one of them has the minimum, but for the rounding of a percentage.
LEMMA MinimumIsKept ==
  ASSUME NEW policy \in PricingPolicy, NEW list \in Nat,
         NEW minimum \in MinimumPrices(policy, list)
  PROVE  /\ minimum \in Nat
         /\ \A price \in Nat : price >= minimum =>
              IF policy.type = "fixed" THEN price >= policy.minimum
              ELSE price * (20000 * Precision) >= list * (2 * policy.minimum - Precision)
<1>1. policy.minimum \in Nat /\ Precision \in Nat \ {0}
  BY PolicyTypes, PricingAssumption
<1>2. CASE policy.type = "fixed"
  <2>1. minimum = policy.minimum
    BY <1>2 DEF MinimumPrices
  <2> QED
    BY <1>1, <1>2, <2>1
<1>3. CASE policy.type # "fixed"
  <2>1. PICK h \in BasisPoints(policy.minimum) : minimum = PercentageFloor(list, h)
    BY <1>3 DEF MinimumPrices
  <2>2. h \in Nat /\ h * (2 * Precision) >= 2 * policy.minimum - Precision
    BY <1>1, RoundedPercentage
  <2>3. minimum \in Nat
    BY <2>1, <2>2, PercentageFloorIsPrice
  <2>4. ASSUME NEW price \in Nat, price >= minimum
        PROVE  price * (20000 * Precision) >= list * (2 * policy.minimum - Precision)
    <3> DEFINE least == 2 * policy.minimum - Precision
               twice == 2 * Precision
    <3>1. price * 10000 >= list * h
      BY <2>1, <2>2, <2>4, PercentageFloorIsExact
    <3>2. twice \in Nat /\ least \in Int
      BY <1>1
    <3>3. price * (20000 * Precision) = (price * 10000) * twice
      BY <1>1
    <3>4. h * twice >= least
      BY <2>2
    <3> HIDE DEF least, twice
    <3>5. (price * 10000) * twice >= (list * h) * twice
      <4>1. price * 10000 \in Int /\ list * h \in Int
        BY <2>2
      <4> QED
        BY <3>1, <3>2, <4>1, TimesKeepsOrder
    <3>6. (h * twice) * list >= least * list
      <4>1. h * twice \in Int
        BY <2>2, <3>2
      <4> QED
        BY <3>2, <3>4, <4>1, TimesKeepsOrder
    <3>7. (list * h) * twice = (h * twice) * list /\ least * list = list * least
      BY <2>2, <3>2
    <3>8. /\ (price * 10000) * twice \in Int /\ (list * h) * twice \in Int
          /\ list * least \in Int
      BY <2>2, <3>2
    <3>9. (price * 10000) * twice >= list * least
      BY <3>5, <3>6, <3>7, <3>8
    <3> QED
      BY <3>3, <3>9 DEF least
  <2> QED
    BY <1>3, <2>3, <2>4
<1> QED
  BY <1>2, <1>3

\* A price that is not below the least one a policy allows is within the policy.
LEMMA LowestIsWithinPolicy ==
  ASSUME NEW policy \in PricingPolicy, policy.negotiable, NEW list \in Nat,
         NEW minimum \in MinimumPrices(policy, list),
         NEW price \in Nat, price >= LowestAllowed(policy, minimum, list), price <= list
  PROVE  WithinPolicy(policy, list, price)
<1> DEFINE kept == 10000 - policy.maxDiscount
           discounted == PercentageFloor(list, kept)
<1>1. kept \in Nat
  BY PolicyTypes
<1> HIDE DEF kept
<1>2. minimum \in Nat
  BY MinimumIsKept
<1>3. discounted \in Nat
  BY <1>1, PercentageFloorIsPrice
<1>4. price >= (IF minimum > discounted THEN minimum ELSE discounted)
  BY DEF LowestAllowed, kept
<1> HIDE DEF discounted
<1>5. price >= minimum /\ price >= discounted
  BY <1>2, <1>3, <1>4
<1>6. price * 10000 >= list * kept
  BY <1>1, <1>5, PercentageFloorIsExact DEF discounted
<1>7. IF policy.type = "fixed" THEN price >= policy.minimum
      ELSE price * (20000 * Precision) >= list * (2 * policy.minimum - Precision)
  BY <1>5, MinimumIsKept
<1> QED
  BY <1>6, <1>7 DEF WithinPolicy, kept

\* The least price a policy allows is a price, and none above the list price.
LEMMA LowestIsBelowList ==
  ASSUME NEW policy \in PricingPolicy, NEW list \in Nat,
         NEW minimum \in MinimumPrices(policy, list), minimum <= list
  PROVE  /\ LowestAllowed(policy, minimum, list) \in Nat
         /\ LowestAllowed(policy, minimum, list) <= list
<1> DEFINE kept == 10000 - policy.maxDiscount
           discounted == PercentageFloor(list, kept)
<1>0. kept \in Nat /\ kept <= 10000
  BY PolicyTypes
<1>00. kept \in Nat
  BY <1>0
<1> HIDE DEF kept
<1>1. minimum \in Nat
  BY MinimumIsKept
<1>2. discounted \in Nat
  BY <1>00, PercentageFloorIsPrice
<1>3. discounted <= list
  BY <1>0, PercentageFloorBelowList
<1> QED
  BY <1>1, <1>2, <1>3 DEF LowestAllowed, kept

-----------------------------------------------------------------------------
\* What a row of pricing_decisions promises of the policy it names.
SoundDecision(policy, d) ==
  d.outcome \in {"accept", "counter"} =>
    /\ d.price \in Nat
    /\ d.price = d.list \/ WithinPolicy(policy, d.list, d.price)

\* evaluatePriceDecision accepts and offers only prices within the policy, its own
\* counter offers included, and never fails to name one.
LEMMA DecisionIsSound ==
  ASSUME NEW policy \in PricingPolicy, NEW list \in Nat,
         NEW minimum \in MinimumPrices(policy, list), minimum <= list,
         NEW offer \in Nat, NEW version
  PROVE  LET d == PriceDecision(policy, minimum, list, offer)
             entry == [list |-> list, version |-> version, outcome |-> d.outcome,
                     price |-> d.price]
         IN  /\ SoundDecision(policy, entry)
             /\ d.outcome \in {"accept", "counter", "handoff", "reject"}
             /\ d.price \in Nat \cup {NoPrice}
<1> DEFINE d == PriceDecision(policy, minimum, list, offer)
           lowest == LowestAllowed(policy, minimum, list)
<1>1. /\ policy.negotiable \in BOOLEAN
      /\ policy.belowMinimum \in {"counter", "handoff", "reject"}
      /\ policy.whenNotNegotiable \in {"handoff", "reject"}
  BY PolicyTypes
<1>2. lowest \in Nat /\ lowest <= list
  BY LowestIsBelowList
<1>3. CASE offer >= list
  <2>1. d = Decided("accept", list)
    BY <1>3 DEF PriceDecision
  <2> QED
    BY <2>1 DEF SoundDecision, Decided
<1>4. CASE offer < list /\ ~policy.negotiable
  <2>1. d = Decided(policy.whenNotNegotiable, NoPrice)
    BY <1>4 DEF PriceDecision
  <2> QED
    BY <1>1, <2>1 DEF SoundDecision, Decided
<1>5. CASE offer < list /\ policy.negotiable /\ offer >= lowest
  <2>1. d = Decided("accept", offer)
    BY <1>5 DEF PriceDecision
  <2>2. WithinPolicy(policy, list, offer)
    BY <1>5, LowestIsWithinPolicy
  <2> QED
    BY <2>1, <2>2 DEF SoundDecision, Decided
<1>6. CASE offer < list /\ policy.negotiable /\ ~(offer >= lowest)
  <2>1. d = Decided(policy.belowMinimum,
                    IF policy.belowMinimum = "counter" THEN lowest ELSE NoPrice)
    BY <1>6 DEF PriceDecision
  <2>2. WithinPolicy(policy, list, lowest)
    BY <1>2, <1>6, LowestIsWithinPolicy
  <2> QED
    BY <1>1, <1>2, <2>1, <2>2 DEF SoundDecision, Decided
<1>7. offer >= list \/ offer < list
  OBVIOUS
<1> QED
  BY <1>1, <1>3, <1>4, <1>5, <1>6, <1>7

-----------------------------------------------------------------------------
\* Every stored decision is sound for the version it names, and an item stands on
\* a stored one.
DecisionsAreSound ==
  \A d \in decision :
    d.version \in 1..Len(policies) /\ SoundDecision(policies[d.version], d)

ItemStandsOnDecision == item.by # ByNoDecision => item.by \in decision

\* While an item is being confirmed the list price is followed, and from the check on
\* its own was among those there were.
ListPriceIsFollowed ==
  /\ InConfirm /\ listPrice # NoPrice => listPrice \in onOffer
  /\ item.step \in {"checked", "written"} => item.list \in onOffer

PricingInv ==
  PricingTypeOK /\ DecisionsAreSound /\ ItemStandsOnDecision /\ ListPriceIsFollowed

LEMMA PricingStep ==
  ASSUME PricingInv, [PricingNext]_pricingVars
  PROVE  PricingInv'
<1> USE PricingAssumption
<1>1. CASE ChangeListPrice
  <2>1. /\ UNCHANGED <<policies, seen, quoting, decision, item>>
        /\ listPrice' \in Nat \cup {NoPrice}
        /\ onOffer' = IF InConfirm THEN onOffer \cup ({listPrice'} \ {NoPrice}) ELSE {}
    BY <1>1 DEF ChangeListPrice
  <2>2. onOffer' \subseteq Nat
    <3> DEFINE more == {listPrice'} \ {NoPrice}
    <3>1. onOffer \subseteq Nat
      BY DEF PricingInv, PricingTypeOK
    <3>2. more \subseteq Nat
      BY <2>1
    <3>3. onOffer' = IF InConfirm THEN onOffer \cup more ELSE {}
      BY <2>1
    <3> HIDE DEF more
    <3>4. CASE InConfirm
      <4>1. onOffer' = onOffer \cup more
        BY <3>3, <3>4
      <4> QED
        BY <3>1, <3>2, <4>1
    <3>5. CASE ~InConfirm
      <4>1. onOffer' = {}
        BY <3>3, <3>5
      <4> QED
        BY <4>1
    <3> QED
      BY <3>4, <3>5
  <2>3. ListPriceIsFollowed'
    BY <2>1 DEF PricingInv, ListPriceIsFollowed, InConfirm
  <2> QED
    BY <2>1, <2>2, <2>3 DEF PricingInv, PricingTypeOK, DecisionsAreSound, ItemStandsOnDecision
<1>2. CASE PublishPolicy
  <2>1. PICK p \in Policies : policies' = Append(policies, p)
    BY <1>2 DEF PublishPolicy
  <2>2. /\ policies' \in Seq(PricingPolicy)
        /\ Len(policies') = Len(policies) + 1
        /\ \A v \in 1..Len(policies) : policies'[v] = policies[v]
    BY <2>1 DEF PricingInv, PricingTypeOK
  <2>3. UNCHANGED <<listPrice, seen, quoting, decision, item, onOffer>>
    BY <1>2 DEF PublishPolicy
  <2>4. DecisionsAreSound'
    <3> SUFFICES ASSUME NEW d \in decision
                 PROVE  d.version \in 1..Len(policies') /\ SoundDecision(policies'[d.version], d)
      BY <2>3 DEF DecisionsAreSound
    <3>1. d.version \in 1..Len(policies) /\ SoundDecision(policies[d.version], d)
      BY DEF PricingInv, DecisionsAreSound
    <3>2. Len(policies) \in Nat
      BY DEF PricingInv, PricingTypeOK
    <3> QED
      BY <2>2, <3>1, <3>2
  <2> QED
    BY <2>2, <2>3, <2>4 DEF PricingInv, PricingTypeOK, ItemStandsOnDecision,
                            ListPriceIsFollowed, InConfirm
<1>3. CASE ReadListPrice \/ StartQuote
  <2>1. /\ UNCHANGED <<listPrice, policies, decision, item, onOffer>>
        /\ seen' \in Nat \cup {NoPrice} /\ quoting' \in Nat \cup {NoPrice}
    BY <1>3 DEF ReadListPrice, StartQuote, PricingInv, PricingTypeOK
  <2> QED
    BY <2>1 DEF PricingInv, PricingTypeOK, DecisionsAreSound, ItemStandsOnDecision,
                ListPriceIsFollowed, InConfirm
<1>4. ASSUME NEW offer \in Offers, EvaluateOffer(offer)
      PROVE  PricingInv'
  <2>1. UNCHANGED <<listPrice, policies, quoting, item, onOffer>> /\ seen' = NoPrice
    BY <1>4 DEF EvaluateOffer
  <2>2. ASSUME NEW minimum \in MinimumPrices(InForce, seen), policies # << >>, minimum <= seen,
               decision' = decision \cup
                 {[list |-> seen, version |-> Len(policies),
                   outcome |-> PriceDecision(InForce, minimum, seen, offer).outcome,
                   price |-> PriceDecision(InForce, minimum, seen, offer).price]}
        PROVE  PricingInv'
    <3> DEFINE d == PriceDecision(InForce, minimum, seen, offer)
               entry == [list |-> seen, version |-> Len(policies),
                       outcome |-> d.outcome, price |-> d.price]
    <3>1. decision' = decision \cup {entry}
      BY <2>2
    <3>2. seen \in Nat /\ offer \in Nat
      BY <1>4 DEF EvaluateOffer, PricingInv, PricingTypeOK
    <3>3. InForce \in PricingPolicy /\ Len(policies) \in 1..Len(policies)
      BY <2>2 DEF InForce, PricingInv, PricingTypeOK
    <3> HIDE DEF d
    <3>4. /\ SoundDecision(InForce, entry)
          /\ d.outcome \in {"accept", "counter", "handoff", "reject"}
          /\ d.price \in Nat \cup {NoPrice}
      BY <2>2, <3>2, <3>3, DecisionIsSound DEF d
    <3>5. entry \in DecisionRow
      BY <3>2, <3>3, <3>4 DEF DecisionRow
    <3>6. DecisionsAreSound'
      BY <2>1, <3>1, <3>3, <3>4 DEF PricingInv, DecisionsAreSound, InForce
    <3> QED
      BY <2>1, <3>1, <3>5, <3>6 DEF PricingInv, PricingTypeOK, ItemStandsOnDecision,
                                    ListPriceIsFollowed, InConfirm
  <2>3. CASE UNCHANGED decision
    BY <2>1, <2>3 DEF PricingInv, PricingTypeOK, DecisionsAreSound, ItemStandsOnDecision,
                      ListPriceIsFollowed, InConfirm
  <2> QED
    BY <1>4, <2>2, <2>3 DEF EvaluateOffer
<1>5. CASE QuoteItem
  <2>1. UNCHANGED <<listPrice, policies, seen, decision, onOffer>> /\ quoting' = NoPrice
    BY <1>5 DEF QuoteItem
  <2>2. quoting \in Nat
    BY <1>5 DEF QuoteItem, PricingInv, PricingTypeOK
  <2>3. CASE item' = [step |-> "quoted", list |-> quoting, price |-> quoting,
                      by |-> ByNoDecision]
    BY <2>1, <2>2, <2>3 DEF PricingInv, PricingTypeOK, DecisionsAreSound, ItemStandsOnDecision,
                            ListPriceIsFollowed, InConfirm, ByNoDecision, DecisionRow
  <2>4. ASSUME NEW d \in decision,
               item' = [step |-> "quoted", list |-> quoting, price |-> d.price, by |-> d]
        PROVE  PricingInv'
    <3>1. d \in DecisionRow
      BY DEF PricingInv, PricingTypeOK
    <3> QED
      BY <2>1, <2>2, <2>4, <3>1 DEF PricingInv, PricingTypeOK, DecisionsAreSound,
                              ItemStandsOnDecision, ListPriceIsFollowed, InConfirm, DecisionRow
  <2>5. CASE UNCHANGED item
    BY <2>1, <2>5 DEF PricingInv, PricingTypeOK, DecisionsAreSound, ItemStandsOnDecision,
                      ListPriceIsFollowed, InConfirm
  <2> QED
    BY <1>5, <2>3, <2>4, <2>5 DEF QuoteItem
<1>6. ASSUME NEW next \in {"confirming", "checked", "written", "ordered", "quoted"},
             item' = [item EXCEPT !.step = next],
             UNCHANGED <<listPrice, policies, seen, quoting, decision>>,
             onOffer' \subseteq Nat, ListPriceIsFollowed'
      PROVE  PricingInv'
  BY <1>6 DEF PricingInv, PricingTypeOK, DecisionsAreSound, ItemStandsOnDecision
<1>7. CASE BeginConfirm
  <2>1. /\ item' = [item EXCEPT !.step = "confirming"] /\ onOffer' = {listPrice} \ {NoPrice}
        /\ UNCHANGED <<listPrice, policies, seen, quoting, decision>>
    BY <1>7 DEF BeginConfirm
  <2>2. onOffer' \subseteq Nat /\ ListPriceIsFollowed'
    BY <2>1 DEF PricingInv, PricingTypeOK, ListPriceIsFollowed
  <2> QED
    BY <1>6, <2>1, <2>2
<1>8. CASE CheckItem
  <2>1. /\ item' = [item EXCEPT !.step = "checked"] /\ item.list = listPrice
        /\ item.step = "confirming" /\ UNCHANGED onOffer
        /\ UNCHANGED <<listPrice, policies, seen, quoting, decision>>
    BY <1>8 DEF CheckItem
  <2>2. onOffer' \subseteq Nat /\ ListPriceIsFollowed'
    BY <2>1 DEF PricingInv, PricingTypeOK, ListPriceIsFollowed, InConfirm
  <2> QED
    BY <1>6, <2>1, <2>2
<1>9. CASE WriteItem
  <2>1. /\ item' = [item EXCEPT !.step = "written"]
        /\ item.step = "checked" /\ UNCHANGED onOffer
        /\ UNCHANGED <<listPrice, policies, seen, quoting, decision>>
    BY <1>9 DEF WriteItem
  <2>2. onOffer' \subseteq Nat /\ ListPriceIsFollowed'
    BY <2>1 DEF PricingInv, PricingTypeOK, ListPriceIsFollowed, InConfirm
  <2> QED
    BY <1>6, <2>1, <2>2
<1>10. CASE CommitConfirm \/ RollBackConfirm
  <2>1. PICK next \in {"ordered", "quoted"} : item' = [item EXCEPT !.step = next]
    BY <1>10 DEF CommitConfirm, RollBackConfirm
  <2>2. onOffer' = {} /\ UNCHANGED <<listPrice, policies, seen, quoting, decision>>
    BY <1>10 DEF CommitConfirm, RollBackConfirm
  <2>3. ListPriceIsFollowed'
    BY <2>1 DEF PricingInv, PricingTypeOK, ListPriceIsFollowed, InConfirm
  <2> QED
    BY <1>6, <2>1, <2>2, <2>3
<1>11. CASE UNCHANGED pricingVars
  BY <1>11 DEF PricingInv, PricingTypeOK, DecisionsAreSound, ItemStandsOnDecision,
               ListPriceIsFollowed, InConfirm, pricingVars
<1> QED
  BY <1>1, <1>2, <1>3, <1>4, <1>5, <1>7, <1>8, <1>9, <1>10, <1>11 DEF PricingNext

LEMMA PricingStarts == PricingInit => PricingInv
  BY PricingAssumption DEF PricingInit, PricingInv, PricingTypeOK, DecisionsAreSound,
     ItemStandsOnDecision, ListPriceIsFollowed, InConfirm, NoItem, ByNoDecision, DecisionRow

LEMMA PricingInvariant == PricingSpec => []PricingInv
  BY PricingStarts, PricingStep, PTL DEF PricingSpec

\* The rules, decisions and the item keep their types for any prices and policies.
THEOREM PricingTypeCorrect == PricingSpec => []PricingTypeOK
  BY PricingInvariant, PTL DEF PricingInv

\* Every stored decision to accept or to counter names a price within the policy version
\* it was taken from (business_rule evaluate and percentageFloor), for minimum percentages
\* of any precision: less than one of them by half a hundredth of a percent of the list
\* price at most, which is what rounding it may lose.
THEOREM DecisionsAreSoundInvariant == PricingSpec => []DecisionsAreSound
  BY PricingInvariant, PTL DEF PricingInv

-----------------------------------------------------------------------------
\* An item is written where Backed, so that its decision names the version in force and
\* its own list price: soundness of the decision does the rest.
LEMMA WriteStep ==
  ASSUME PricingInv, [PricingNext]_pricingVars, item.step # "written", item'.step = "written"
  PROVE  \/ item.price = item.list
         \/ /\ policies # << >>
            /\ item.price \in Nat
            /\ WithinPolicy(InForce, item.list, item.price)
<1>1. WriteItem
  <2>1. CASE QuoteItem
    BY <2>1 DEF QuoteItem
  <2>2. CASE \/ BeginConfirm \/ CheckItem \/ CommitConfirm \/ RollBackConfirm
    BY <2>2 DEF PricingInv, PricingTypeOK, BeginConfirm, CheckItem, CommitConfirm,
                RollBackConfirm
  <2> QED
    BY <2>1, <2>2 DEF PricingNext, pricingVars, ChangeListPrice, PublishPolicy, ReadListPrice,
                      EvaluateOffer, StartQuote
<1>2. CASE item.by = ByNoDecision
  BY <1>1, <1>2 DEF WriteItem, Backed
<1>3. CASE item.by # ByNoDecision
  <2>1. Holds(item.by, item.list) /\ item.by.price = item.price
    BY <1>1, <1>3 DEF WriteItem, Backed
  <2>2. item.by \in decision
    BY <1>3 DEF PricingInv, ItemStandsOnDecision
  <2>3. /\ item.by.version = Len(policies)
        /\ item.by.list = item.list
        /\ item.by.outcome \in {"accept", "counter"}
    BY <2>1 DEF Holds
  <2>4. Len(policies) \in 1..Len(policies) /\ SoundDecision(InForce, item.by)
    BY <2>2, <2>3 DEF PricingInv, DecisionsAreSound, InForce
  <2>5. policies # << >>
    BY <2>4 DEF PricingInv, PricingTypeOK
  <2> QED
    BY <2>1, <2>3, <2>4, <2>5 DEF SoundDecision
<1> QED
  BY <1>2, <1>3

LEMMA OrderStep ==
  ASSUME PricingInv, [PricingNext]_pricingVars, item.step # "ordered", item'.step = "ordered"
  PROVE  item.list \in onOffer
<1>1. CommitConfirm
  <2>1. CASE QuoteItem
    BY <2>1 DEF QuoteItem
  <2>2. CASE \/ BeginConfirm \/ CheckItem \/ WriteItem \/ RollBackConfirm
    BY <2>2 DEF PricingInv, PricingTypeOK, BeginConfirm, CheckItem, WriteItem, RollBackConfirm
  <2> QED
    BY <2>1, <2>2 DEF PricingNext, pricingVars, ChangeListPrice, PublishPolicy, ReadListPrice,
                      EvaluateOffer, StartQuote
<1> QED
  BY <1>1 DEF CommitConfirm, PricingInv, ListPriceIsFollowed

\* An item is written into an order at its list price, or at one within the policy in
\* force when it is written, and at its commit that list price is one the product was on
\* sale at since the command began: for any prices, offers, policies and percentages.
THEOREM OrderedWithinPolicyAlways == PricingSpec => OrderedWithinPolicy
<1>1. PricingInv /\ [PricingNext]_pricingVars =>
        [/\ item.step # "written" /\ item'.step = "written" =>
              \/ item.price = item.list
              \/ /\ policies # << >>
                 /\ item.price \in Nat
                 /\ WithinPolicy(InForce, item.list, item.price)
         /\ item.step # "ordered" /\ item'.step = "ordered" =>
              item.list \in onOffer]_pricingVars
  BY WriteStep, OrderStep
<1> QED
  BY <1>1, PricingInvariant, PTL DEF PricingSpec, OrderedWithinPolicy

-----------------------------------------------------------------------------
\* BackOffice: the components beside each other.

LEMMA InboundTypes == InboundInv => InboundTypeOK
<1> SUFFICES ASSUME InboundInv PROVE InboundTypeOK
  OBVIOUS
<1>1. DeliveryRow \subseteq
        [step : {"idle", "next", "done"} \cup Holding, items : Seq(Item), at : Nat,
         customer : People \cup {NoOne}, sees : People \cup {NoOne}, skipped : BOOLEAN,
         answer : Answers]
  BY DEF DeliveryRow
<1> QED
  BY <1>1 DEF InboundInv, InboundRows, InboundTypeOK

BackOfficeInv ==
  /\ part \in Parts
  /\ GatewayInv /\ CatalogInv /\ MediaInv /\ ConfigInv /\ CountInv
  /\ InboundInv /\ ConnectionsInv /\ PricingInv

LEMMA BackOfficeInitially == BackOfficeInit => BackOfficeInv
  BY GatewayInitially, CatalogInitially, MediaInitially, ConfigInitially, CountInitially,
     InboundInitially, ConnectionsInitially, PricingStarts DEF BackOfficeInit, BackOfficeInv

\* A step of the back office is a step of one component and of no other.
LEMMA OneComponentSteps ==
  ASSUME [BackOfficeNext]_<<part, partVars>>
  PROVE  /\ part' = part
         /\ [GwNext]_gwVars /\ [CatalogNext]_catalogVars /\ [MediaNext]_mediaVars
         /\ [ConfigNext]_configVars /\ [InboundNext]_inboundVars
         /\ [ConnectionsNext]_connectionVars /\ [PricingNext]_pricingVars
<1>1. CASE UNCHANGED <<part, partVars>>
  BY <1>1 DEF partVars
<1>2. CASE BackOfficeNext
  BY <1>2 DEF BackOfficeNext
<1> QED
  BY <1>1, <1>2

LEMMA BackOfficeStep == BackOfficeInv /\ [BackOfficeNext]_<<part, partVars>> => BackOfficeInv'
<1> SUFFICES ASSUME BackOfficeInv, [BackOfficeNext]_<<part, partVars>> PROVE BackOfficeInv'
  OBVIOUS
<1>1. /\ part' = part
      /\ [GwNext]_gwVars /\ [CatalogNext]_catalogVars /\ [MediaNext]_mediaVars
      /\ [ConfigNext]_configVars /\ [InboundNext]_inboundVars
      /\ [ConnectionsNext]_connectionVars /\ [PricingNext]_pricingVars
  BY OneComponentSteps
<1>2. GatewayInv' /\ CatalogInv' /\ MediaInv'
  BY <1>1, GatewayStep, CatalogStep, MediaStep DEF BackOfficeInv
<1>3. ConfigInv' /\ CountInv'
  BY <1>1, ConfigStep, CountStep DEF BackOfficeInv
<1>4. InboundInv' /\ ConnectionsInv' /\ PricingInv'
  BY <1>1, InboundStep, ConnectionsStep, PricingStep DEF BackOfficeInv
<1> QED
  BY <1>1, <1>2, <1>3, <1>4 DEF BackOfficeInv, Parts

\* Every component keeps the values of its state, whatever the others do and however
\* many there are of anything (BackOfficeTypeOK); of the gateway that includes the
\* bounds of a run, of the configuration those of a subject's counter.
THEOREM BackOfficeTypeCorrect == BackOfficeSpec => []BackOfficeTypeOK
<1>1. ASSUME BackOfficeInv PROVE BackOfficeTypeOK
  <2>1. GatewayTypeOK
    BY <1>1 DEF BackOfficeInv, GatewayInv, GatewayTypeOK, Circuits
  <2>2. CatalogTypeOK
    BY <1>1 DEF BackOfficeInv, CatalogInv, CatalogTypeOK, EditorRecord
  <2>3. MediaTypeOK /\ ConnectionsTypeOK /\ PricingTypeOK
    BY <1>1 DEF BackOfficeInv, MediaInv, ConnectionsInv, PricingInv
  <2>4. ConfigTypeOK /\ InboundTypeOK
    BY <1>1, ConfigTypes, InboundTypes DEF BackOfficeInv
  <2> QED
    BY <1>1, <2>1, <2>2, <2>3, <2>4 DEF BackOfficeTypeOK, BackOfficeInv
<1>2. BackOfficeInv => BackOfficeTypeOK
  BY <1>1
<1> QED
  BY <1>2, BackOfficeInitially, BackOfficeStep, PTL DEF BackOfficeSpec
=============================================================================
