----------------------------- MODULE AiGateway -----------------------------
(***************************************************************************)
(* RoutedAiGateway.run of packages/ai-gateway/src/gateway.ts: the routes   *)
(* a run tries, the attempts on a route, the calls of an attempt, the      *)
(* tools a response asks for, the budget, and the circuit breaker the runs *)
(* of one gateway share.                                                   *)
(*                                                                         *)
(* Money is counted in calls: a call is estimated at one unit, two once    *)
(* tool results make the request longer, and an answer costs up to two.    *)
(* A call that fails returns no usage and is not counted, as in the code.  *)
(* Routes are numbered in the order sortRoutes gives them.                 *)
(***************************************************************************)
EXTENDS Integers, FiniteSets

CONSTANTS
  GwRuns,      \* runs that share one gateway
  GwRoutes,    \* number of routes that fit the task and the intent
  GwAttempts,  \* maximumAttempts of a route
  GwTools,     \* maximumToolCalls of a run
  GwBatch,     \* bound on the tools one response asks for
  GwBudget,    \* maximumCostUsd, in calls
  GwThreshold  \* failureThreshold of the circuit breaker

ASSUME AiGatewayAssumption ==
  /\ GwRoutes \in Nat
  /\ GwAttempts \in Nat \ {0}
  /\ GwTools \in Nat
  /\ GwBatch \in Nat
  /\ GwBudget \in Nat
  /\ GwThreshold \in Nat \ {0}

RouteIds == 1..GwRoutes
AttemptIds == RouteIds \X (1..GwAttempts)

\* Every call ends an attempt or runs a tool.
CallLimit == GwRoutes * GwAttempts + GwTools

GwStep == {"new", "routing", "calling", "tools", "ended"}

GwOutcome == {"none", "completed", "handoff", "rejected"}

GwRun ==
  [step : GwStep, route : 1..(GwRoutes + 1), attempt : 1..GwAttempts,
   calls : 0..CallLimit, tools : 0..GwTools, asked : 0..GwBatch, cost : 0..(GwBudget + 2),
   acted : BOOLEAN, outcome : GwOutcome,
   effects : SUBSET AttemptIds, hanging : SUBSET AttemptIds]

VARIABLES
  gwRun,   \* each run: its position, what it spent, and what its commands did
  circuit  \* AiCircuitBreaker.#states by route: failures, and the state of the circuit

gwVars == <<gwRun, circuit>>

NewRun ==
  [step |-> "new", route |-> 1, attempt |-> 1, calls |-> 0, tools |-> 0, asked |-> 0,
   cost |-> 0, acted |-> FALSE, outcome |-> "none", effects |-> {}, hanging |-> {}]

\* "cooled": open for resetAfterMs or longer.
Closed == [failures |-> 0, state |-> "closed"]

GwInit ==
  /\ gwRun = [r \in GwRuns |-> NewRun]
  /\ circuit = [p \in RouteIds |-> Closed]

AttemptOf(r) == <<gwRun[r].route, gwRun[r].attempt>>

Ended(s, outcome) == [s EXCEPT !.step = "ended", !.outcome = outcome]

StartRun(r) ==
  /\ gwRun[r].step = "new"
  /\ gwRun' = [gwRun EXCEPT ![r].step = "routing"]
  /\ UNCHANGED circuit

\* A malformed request throws before any route is tried.
RejectRun(r) ==
  /\ gwRun[r].step = "new"
  /\ gwRun' = [gwRun EXCEPT ![r] = Ended(@, "rejected")]
  /\ UNCHANGED circuit

Choosing(r) == gwRun[r].step = "routing" /\ gwRun[r].route \in RouteIds

Affordable(r, estimate) == gwRun[r].cost + estimate <= GwBudget

\* The route costs more than is left, or its circuit is open.
SkipRoute(r) ==
  /\ Choosing(r)
  /\ ~Affordable(r, 1) \/ circuit[gwRun[r].route].state = "open"
  /\ gwRun' = [gwRun EXCEPT ![r].route = @ + 1]
  /\ UNCHANGED circuit

\* canRequest closes a circuit that has been open long enough.
EnterRoute(r) ==
  LET p == gwRun[r].route
  IN /\ Choosing(r)
     /\ Affordable(r, 1)
     /\ circuit[p].state # "open"
     /\ circuit' = IF circuit[p].state = "cooled" THEN [circuit EXCEPT ![p] = Closed]
                   ELSE circuit
     /\ gwRun' = [gwRun EXCEPT ![r].step = "calling", ![r].attempt = 1, ![r].acted = FALSE]

NoRouteLeft(r) ==
  /\ gwRun[r].step = "routing"
  /\ gwRun[r].route = GwRoutes + 1
  /\ gwRun' = [gwRun EXCEPT ![r] = Ended(@, "handoff")]
  /\ UNCHANGED circuit

\* recordSuccess and recordFailure.
ClearFailures(r) == circuit' = [circuit EXCEPT ![gwRun[r].route] = Closed]

CountFailure(r) ==
  LET p == gwRun[r].route
      n == circuit[p].failures + 1
  IN circuit' = [circuit EXCEPT ![p] =
       IF n >= GwThreshold THEN [failures |-> GwThreshold, state |-> "open"]
       ELSE [@ EXCEPT !.failures = n]]

CircuitCools(p) ==
  /\ circuit[p].state = "open"
  /\ circuit' = [circuit EXCEPT ![p].state = "cooled"]
  /\ UNCHANGED gwRun

\* Where the catch block of an attempt leaves the run, s.
AfterFailure_AnotherTry(s, mayHaveExecuted) ==
  IF s.attempt < GwAttempts
  THEN [s EXCEPT !.step = "calling", !.attempt = @ + 1, !.asked = 0, !.acted = FALSE]
  ELSE [s EXCEPT !.step = "routing", !.route = @ + 1, !.asked = 0]

AfterFailure(s, mayHaveExecuted) ==
  IF s.acted \/ mayHaveExecuted THEN Ended(s, "handoff")
  ELSE IF s.attempt < GwAttempts
  THEN [s EXCEPT !.step = "calling", !.attempt = @ + 1, !.asked = 0, !.acted = FALSE]
  ELSE [s EXCEPT !.step = "routing", !.route = @ + 1, !.asked = 0]

Fail(r, s, mayHaveExecuted) ==
  /\ CountFailure(r)
  /\ gwRun' = [gwRun EXCEPT ![r] = AfterFailure(s, mayHaveExecuted)]

\* The estimate of the next call, which tool results have made longer.
Estimates(r) == IF gwRun[r].tools > 0 THEN {1, 2} ELSE {1}

OverBudget(r) ==
  /\ gwRun[r].step = "calling"
  /\ \E estimate \in Estimates(r) : ~Affordable(r, estimate)
  /\ gwRun' = [gwRun EXCEPT ![r] = Ended(@, "handoff")]
  /\ UNCHANGED circuit

Calling(r) ==
  /\ gwRun[r].step = "calling"
  /\ \E estimate \in Estimates(r) : Affordable(r, estimate)

\* A timeout, an HTTP error, or an answer that does not follow the protocol.
CallFails(r) ==
  /\ Calling(r)
  /\ Fail(r, [gwRun[r] EXCEPT !.calls = @ + 1], FALSE)

Answered(r, cost) == [gwRun[r] EXCEPT !.calls = @ + 1, !.cost = @ + cost]

AnswerOverBudget(r, cost) ==
  /\ Calling(r)
  /\ gwRun[r].cost + cost > GwBudget
  /\ gwRun' = [gwRun EXCEPT ![r] = Ended(Answered(r, cost), "handoff")]
  /\ UNCHANGED circuit

AnswerFinal(r, cost, outcome) ==
  /\ Calling(r)
  /\ Affordable(r, cost)
  /\ outcome \in {"completed", "handoff"}
  /\ ClearFailures(r)
  /\ gwRun' = [gwRun EXCEPT ![r] = Ended(Answered(r, cost), outcome)]

AnswerInvalid(r, cost) ==
  /\ Calling(r)
  /\ Affordable(r, cost)
  /\ Fail(r, Answered(r, cost), FALSE)

AnswerTools_MayBeEmpty(r, cost, n) ==
  /\ Calling(r)
  /\ Affordable(r, cost)
  /\ IF n = 0 THEN gwRun' = [gwRun EXCEPT ![r] = Answered(r, cost)]
     ELSE gwRun' = [gwRun EXCEPT ![r] = [Answered(r, cost) EXCEPT !.step = "tools", !.asked = n]]
  /\ UNCHANGED circuit

\* The empty list of calls is a protocol error.
AnswerTools(r, cost, n) ==
  /\ Calling(r)
  /\ Affordable(r, cost)
  /\ IF n = 0 THEN Fail(r, Answered(r, cost), FALSE)
     ELSE /\ gwRun' = [gwRun EXCEPT ![r] =
                [Answered(r, cost) EXCEPT !.step = "tools", !.asked = n]]
          /\ UNCHANGED circuit

TooManyTools(r) ==
  /\ gwRun[r].step = "tools"
  /\ gwRun[r].tools >= GwTools
  /\ Fail(r, gwRun[r], FALSE)

RunningTool(r) == gwRun[r].step = "tools" /\ gwRun[r].tools < GwTools

Traced(r) == [gwRun[r] EXCEPT !.tools = @ + 1]

ToolSucceeds(r, kind) ==
  LET command == kind = "command"
      more == gwRun[r].asked > 1
  IN /\ RunningTool(r)
     /\ gwRun' = [gwRun EXCEPT ![r] =
          [Traced(r) EXCEPT !.asked = @ - 1,
                            !.step = IF more THEN "tools" ELSE "calling",
                            !.acted = @ \/ command,
                            !.effects = IF command THEN @ \cup {AttemptOf(r)} ELSE @]]
     /\ UNCHANGED circuit

\* A tool that is not allowed, or whose input does not parse: nothing runs.
ToolRejected(r) ==
  /\ RunningTool(r)
  /\ Fail(r, Traced(r), FALSE)

ReadFails(r) ==
  /\ RunningTool(r)
  /\ Fail(r, Traced(r), FALSE)

\* A command that fails has done nothing, has done it, or, timed out, has yet to.
CommandFails(r) ==
  /\ RunningTool(r)
  /\ \/ Fail(r, Traced(r), TRUE)
     \/ Fail(r, [Traced(r) EXCEPT !.effects = @ \cup {AttemptOf(r)}], TRUE)
     \/ Fail(r, [Traced(r) EXCEPT !.hanging = @ \cup {AttemptOf(r)}], TRUE)

LateEffect(r) ==
  \E a \in gwRun[r].hanging :
    /\ gwRun' = [gwRun EXCEPT ![r].hanging = @ \ {a}, ![r].effects = @ \cup {a}]
    /\ UNCHANGED circuit

GwNext ==
  \/ \E p \in RouteIds : CircuitCools(p)
  \/ \E r \in GwRuns :
       \/ StartRun(r) \/ RejectRun(r) \/ SkipRoute(r) \/ EnterRoute(r) \/ NoRouteLeft(r)
       \/ OverBudget(r) \/ CallFails(r) \/ TooManyTools(r)
       \/ ToolRejected(r) \/ ReadFails(r) \/ CommandFails(r) \/ LateEffect(r)
       \/ \E kind \in {"read", "command"} : ToolSucceeds(r, kind)
       \/ \E cost \in 0..2 :
            \/ AnswerOverBudget(r, cost)
            \/ AnswerInvalid(r, cost)
            \/ \E outcome \in {"completed", "handoff"} : AnswerFinal(r, cost, outcome)
            \/ \E n \in 0..GwBatch : AnswerTools(r, cost, n)

GwSpec == GwInit /\ [][GwNext]_gwVars

-----------------------------------------------------------------------------

\* The values of the gateway's state.  The bounds are part of it: a run ends
\* after at most CallLimit calls of a provider and GwTools tools, and spends at
\* most one answer more than its budget.
GatewayTypeOK ==
  /\ gwRun \in [GwRuns -> GwRun]
  /\ circuit \in [RouteIds -> [failures : 0..GwThreshold, state : {"closed", "open", "cooled"}]]

\* However a run ends, the commands its tools executed, or may still execute, all
\* belong to one attempt: no retry and no fallback repeats a command.
CommandsRunOnce ==
  \A r \in GwRuns : Cardinality(gwRun[r].effects \cup gwRun[r].hanging) <= 1
=============================================================================
