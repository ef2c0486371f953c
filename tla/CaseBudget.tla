----------------------------- MODULE CaseBudget -----------------------------
(***************************************************************************)
(* The operational budget one case shares between the goal compiler, the   *)
(* target recovery, the generator and the validation queue                 *)
(* (execution/case_budget.py), with the way run_case and the agents react  *)
(* to CaseBudgetExhausted.                                                 *)
(*                                                                         *)
(* Calls are sequential: at most one model call or one charged execution   *)
(* is in flight.  Time is counted in ticks.  Tokens are reserved before a  *)
(* model call and settled afterwards; seconds are charged afterwards only. *)
(***************************************************************************)
EXTENDS Integers

CONSTANTS
  WallSeconds, MaxModelCalls, MaxTokens, ExecutionSeconds,
  FinalValidationReserve,
  Inputs,        \* bounds on the input of a model call, in tokens
  OutputLimits,  \* max_tokens a caller may ask for
  Timeouts,      \* timeouts a caller may ask for
  Overrun,       \* ticks by which a call may outlast its timeout
  Excess         \* tokens by which reported usage may exceed the reservation

ASSUME BudgetIsPositive ==
  /\ WallSeconds \in Nat \ {0} /\ ExecutionSeconds \in Nat
  /\ MaxModelCalls \in Nat \ {0} /\ MaxTokens \in Nat \ {0}
  /\ FinalValidationReserve \in Nat

ASSUME RequestsArePositive ==
  /\ Inputs \subseteq Nat \ {0}
  /\ OutputLimits \subseteq Nat \ {0}
  /\ Timeouts \subseteq Nat \ {0}

ASSUME SlackIsNatural == Overrun \in Nat /\ Excess \in Nat

VARIABLES
  now,           \* ticks since the case started
  model_calls, tokens, execution_used,
  inflight,      \* the call that is running, if any
  events,        \* what the event log adds up to
  bootstrapped,  \* budget.state is set
  ended          \* how the case ended, if it has

vars == <<now, model_calls, tokens, execution_used, inflight, events,
          bootstrapped, ended>>

Idle == [kind |-> "NONE", reserved |-> 0, started |-> 0, deadline |-> 0]

\* The callers that turn CaseBudgetExhausted into an ordinary failure of their
\* own: it is a RuntimeError, and they catch Exception or RuntimeError.
Swallows(caller) == caller \in {"goal_compiler", "recovery_agent", "repair_tool"}

ModelCallers == {"goal_compiler", "recovery_agent", "generator"}
ExecutionCallers == {"recovery_agent", "repair_tool", "validation"}

Least(S) == CHOOSE x \in S : \A y \in S : x <= y
NonNegative(x) == IF x < 0 THEN 0 ELSE x

remaining_wall == NonNegative(WallSeconds - now)

Init ==
  /\ now = 0
  /\ model_calls = 0 /\ tokens = 0 /\ execution_used = 0
  /\ inflight = Idle
  /\ events = [tokens |-> 0, seconds |-> 0]
  /\ bootstrapped = FALSE
  /\ ended = "NO"

Running == ended = "NO"
Ready == Running /\ inflight = Idle

\* Time passes: between calls freely, during a call until it is cut off.
Tick ==
  /\ Running
  /\ IF inflight = Idle THEN now <= WallSeconds ELSE now < inflight.deadline + Overrun
  /\ now' = now + 1
  /\ UNCHANGED <<model_calls, tokens, execution_used, inflight, events,
                 bootstrapped, ended>>

\* The bootstrap checkpoint exists: from here on an exhausted case is sealed.
Bootstrap ==
  /\ Ready /\ ~bootstrapped
  /\ bootstrapped' = TRUE
  /\ UNCHANGED <<now, model_calls, tokens, execution_used, inflight, events, ended>>

\* CaseBudgetExhausted, swallowed by the caller or caught in run_case, which
\* seals the case or, without a checkpoint to seal, lets it fail.
Exhausted(caller) ==
  /\ ended' = IF Swallows(caller) THEN ended
              ELSE IF bootstrapped THEN "SEALED" ELSE "FAILED"
  /\ UNCHANGED <<now, model_calls, tokens, execution_used, inflight, events,
                 bootstrapped>>

\* BudgetedTransport.complete, up to the call of the provider.
MayCallModel ==
  model_calls < MaxModelCalls /\ remaining_wall > FinalValidationReserve

\* A bug to compare with: the output is limited as if the input were free.
OutputLimitOfBudget(input, limit) == Least({limit, MaxTokens - tokens})

OutputLimit(input, limit) == Least({limit, MaxTokens - tokens - input})

StartModelCall(input, limit, timeout) ==
  /\ Ready /\ MayCallModel
  /\ OutputLimit(input, limit) > 0
  /\ model_calls' = model_calls + 1
  /\ LET reserved == input + OutputLimit(input, limit)
     IN /\ tokens' = tokens + reserved
        /\ inflight' =
             [kind |-> "MODEL", reserved |-> reserved, started |-> now,
              deadline |-> now + Least({timeout, remaining_wall - FinalValidationReserve})]
  /\ UNCHANGED <<now, execution_used, events, bootstrapped, ended>>

RefuseModelCall(caller, input, limit) ==
  /\ Ready
  /\ ~MayCallModel \/ OutputLimit(input, limit) <= 0
  /\ Exhausted(caller)

\* What is charged replaces what was reserved.
Settled(charged) == tokens + charged - inflight.reserved

\* The answer: the reported usage is charged, or the reservation when none is
\* reported; a failed call keeps its reservation.
ModelCallEnds ==
  /\ Running /\ inflight.kind = "MODEL"
  /\ \E charged \in 0..(inflight.reserved + Excess) :
       /\ tokens' = Settled(charged)
       /\ events' = [events EXCEPT !.tokens = @ + charged]
  /\ inflight' = Idle
  /\ UNCHANGED <<now, model_calls, execution_used, bootstrapped, ended>>

ModelCallFails ==
  /\ Running /\ inflight.kind = "MODEL"
  /\ events' = [events EXCEPT !.tokens = @ + inflight.reserved]
  /\ inflight' = Idle
  /\ UNCHANGED <<now, model_calls, tokens, execution_used, bootstrapped, ended>>

AllowanceOfSeconds(requested) ==
  Least({requested, NonNegative(ExecutionSeconds - execution_used)})

\* charged_execution: the timeout is cut to what is left of both budgets, and
\* the elapsed time is charged however the execution ends.
ExecutionAllowance(requested) ==
  Least({requested, remaining_wall, NonNegative(ExecutionSeconds - execution_used)})

StartExecution(requested) ==
  /\ Ready
  /\ ExecutionAllowance(requested) > 0
  /\ inflight' = [kind |-> "EXECUTION", reserved |-> 0, started |-> now,
                  deadline |-> now + ExecutionAllowance(requested)]
  /\ UNCHANGED <<now, model_calls, tokens, execution_used, events, bootstrapped, ended>>

RefuseExecution(caller, requested) ==
  /\ Ready
  /\ ExecutionAllowance(requested) <= 0
  /\ Exhausted(caller)

ExecutionEnds ==
  /\ Running /\ inflight.kind = "EXECUTION"
  /\ execution_used' = execution_used + (now - inflight.started)
  /\ events' = [events EXCEPT !.seconds = @ + (now - inflight.started)]
  /\ inflight' = Idle
  /\ UNCHANGED <<now, model_calls, tokens, bootstrapped, ended>>

\* The controller is through with the case for reasons of its own.
CaseEnds ==
  /\ Ready
  /\ ended' = IF bootstrapped THEN "SEALED" ELSE "FAILED"
  /\ UNCHANGED <<now, model_calls, tokens, execution_used, inflight, events, bootstrapped>>

Finished == ~Running /\ UNCHANGED vars

Next ==
  \/ Tick \/ Bootstrap
  \/ \E input \in Inputs, limit \in OutputLimits :
       \/ \E timeout \in Timeouts : StartModelCall(input, limit, timeout)
       \/ \E caller \in ModelCallers : RefuseModelCall(caller, input, limit)
  \/ ModelCallEnds \/ ModelCallFails
  \/ \E requested \in Timeouts :
       \/ StartExecution(requested)
       \/ \E caller \in ExecutionCallers : RefuseExecution(caller, requested)
  \/ ExecutionEnds \/ CaseEnds \/ Finished

Spec == Init /\ [][Next]_vars

-----------------------------------------------------------------------------
(* Properties.                                                               *)

Calls == [kind : {"NONE", "MODEL", "EXECUTION"}, reserved : Nat, started : Nat,
          deadline : Nat]

\* The shape of the state; the call counter keeps to its limit.
TypeOK ==
  /\ now \in Nat
  /\ model_calls \in 0..MaxModelCalls
  /\ tokens \in Nat /\ execution_used \in Nat
  /\ inflight \in Calls
  /\ events \in [tokens : Nat, seconds : Nat]
  /\ bootstrapped \in BOOLEAN
  /\ ended \in {"NO", "SEALED", "FAILED"}

\* The token budget holds through every sequence of reservations, settlements
\* and failures, swallowed refusals included: it is exceeded at most once, by
\* what one answer used beyond its reservation.
TokensWithinBudget ==
  /\ tokens <= MaxTokens + Excess
  /\ inflight.kind = "MODEL" => tokens <= MaxTokens

\* The event log accounts for every token and every second that was charged:
\* nothing is charged twice, dropped or left reserved after its call.
ChargesAreLogged ==
  /\ tokens = events.tokens + inflight.reserved
  /\ execution_used = events.seconds

\* No model call runs into the time reserved for the final validation, and no
\* execution is started that may run past the wall clock of the case.
ReserveIsKept ==
  /\ inflight.kind = "MODEL" => inflight.deadline + FinalValidationReserve <= WallSeconds
  /\ inflight.kind = "EXECUTION" => inflight.deadline <= WallSeconds

\* Execution time is exceeded at most once, by what one execution took to be
\* killed after its timeout.
ExecutionWithinBudget ==
  /\ execution_used <= ExecutionSeconds + Overrun
  /\ inflight.kind = "EXECUTION" =>
       /\ execution_used + (inflight.deadline - inflight.started) <= ExecutionSeconds
       /\ inflight.started <= now /\ now <= inflight.deadline + Overrun

\* What a case spends stays within its three budgets, up to what one answer or
\* one killed execution runs over, and the log says where it went.
BudgetIsKept == TypeOK /\ TokensWithinBudget /\ ExecutionWithinBudget /\ ChargesAreLogged
=============================================================================
