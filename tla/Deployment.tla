----------------------------- MODULE Deployment -----------------------------
(***************************************************************************)
(* From a walk-forward analysis to a deployment (strategy/src/             *)
(* deployment.rs, walkforward/src/auto_export.rs): the results become the  *)
(* metrics of a request, which the user reviews, whose risks the user      *)
(* acknowledges one by one, and which an administrator approves when the   *)
(* capital is large. The user may cancel whenever they like. Metrics may   *)
(* also come from callers outside the repository.                          *)
(***************************************************************************)
EXTENDS WalkForwardRunner

CONSTANTS
  UserConfigs,             \* UserRiskConfig: [capital, position, dailyLoss, leverage]
  OtherMetrics,            \* [days, drawdown, lowWinRate, unstable] from elsewhere
  PositionCap, DailyLossCap, LeverageCap, MinDays,   \* PlatformLimits
  AdminThreshold, MultiSigThreshold,                 \* capital that needs an approval
  CapitalLossThreshold,    \* capital whose loss has to be acknowledged
  DrawdownThreshold,       \* drawdown that has to be acknowledged, in percent
  None

ASSUME DeploymentAssumption ==
  /\ AdminThreshold \in Nat /\ MultiSigThreshold \in Nat /\ MinDays \in Nat
  /\ \A config \in UserConfigs : config.capital \in Nat
  /\ \A metrics \in OtherMetrics : metrics.days \in Nat

VARIABLES
  request,  \* the DeploymentRequest: [windows, metrics, config, validation, acks, status]
  trail     \* the statuses it has had

vars == <<runnerVars, request, trail>>

Final == {"RejectedByPlatform", "RejectedByAdmin", "CancelledByUser"}

---------------------------------------------------------------------------
(* aggregate_metrics, as far as the request depends on it. Without results *)
(* the averages are not numbers, and no comparison with them holds.        *)

Total(field) == MapThenSumSet(LAMBDA i : results[i].metrics[field], DOMAIN results)

(* The stability falls below 70 % where the standard deviation of the      *)
(* Sharpe ratios exceeds 3/7 of their mean; of one result it is 100 %.     *)
Unstable ==
  LET n == Len(results)
      sum == Total("sharpe")
      squares == MapThenSumSet(LAMBDA i : results[i].metrics.sharpe * results[i].metrics.sharpe,
                               DOMAIN results)
  IN  n >= 2 /\ (sum = 0 \/ 49 * (n * squares - sum * sum) > 9 * sum * sum)

AggregateMetrics ==
  [days       |-> IF results = <<>> THEN 0
                  ELSE Last(results).window.testEnd - Head(results).window.trainStart,
   drawdown   |-> Max({results[i].metrics.drawdown : i \in DOMAIN results} \cup {0}),
   lowWinRate |-> /\ Total("winRate") < 40 * Len(results)
                  /\ Total("profitFactor") > 150 * Len(results),
   unstable   |-> Unstable]

---------------------------------------------------------------------------
(* generate_required_acknowledgments                                       *)

Statement(risk) == [risk |-> risk, acknowledged |-> FALSE]

Statements(risk, required) == IF required THEN <<Statement(risk)>> ELSE <<>>

RequiredAcknowledgments(metrics, config) ==
  <<Statement("TradingRisk"), Statement("PastPerformance")>>
    \o Statements("DrawdownRisk", metrics.drawdown > DrawdownThreshold)
    \o Statements("CapitalLossRisk", config.capital > CapitalLossThreshold)
    \o Statements("StrategySpecific", metrics.lowWinRate)
    \o Statements("StrategySpecific", metrics.unstable)

(* validate_platform_limits: what exceeds a cap is cut down to it, and only*)
(* the length of the backtest rejects.                                     *)
Adjusted(config) ==
  [config EXCEPT
     !.position  = IF @ > PositionCap THEN PositionCap ELSE @,
     !.dailyLoss = IF @ * 100 > config.capital * DailyLossCap
                   THEN (config.capital * DailyLossCap) \div 100 ELSE @,
     !.leverage  = IF @ > LeverageCap THEN LeverageCap ELSE @]

RequiredApproval(capital) ==
  IF capital >= MultiSigThreshold THEN "MultiSigRequired"
  ELSE IF capital >= AdminThreshold THEN "AdminReview" ELSE "None"

Validation(metrics, config) ==
  [passes   |-> metrics.days >= MinDays,
   adjusted |-> IF Adjusted(config) # config THEN Adjusted(config) ELSE None,
   approval |-> RequiredApproval(config.capital)]

---------------------------------------------------------------------------
(* DeploymentRequest                                                       *)

Init == RunnerInit /\ request = None /\ trail = {}

(* DeploymentRequest::new                                                  *)
NewRequest(windows, metrics, config) ==
  LET validation == Validation(metrics, config)
      status == IF validation.passes THEN "PendingUserReview" ELSE "RejectedByPlatform"
  IN  /\ request = None
      /\ request' = [windows |-> windows, metrics |-> metrics, config |-> config,
                     validation |-> validation,
                     acks |-> RequiredAcknowledgments(metrics, config), status |-> status]
      /\ trail' = {status}

(* prepare_deployment, when the analysis has returned its summary.         *)
PrepareDeployment ==
  /\ Finished
  /\ \E config \in UserConfigs : NewRequest(results, AggregateMetrics, config)

(* Another caller has no analysis.                                         *)
RequestElsewhere ==
  /\ awaited = 0 /\ \A k \in DOMAIN tasks : tasks[k] = Pending
  /\ \E metrics \in OtherMetrics, config \in UserConfigs : NewRequest(None, metrics, config)

MoveTo(status) ==
  /\ request' = [request EXCEPT !.status = status]
  /\ trail' = trail \cup {status}

ConfirmReview ==
  request.status = "PendingUserReview" /\ MoveTo("PendingRiskAcknowledgment")

AllRisksAcknowledged(acks) == \A i \in DOMAIN acks : acks[i].acknowledged

(* acknowledge_risk marks the first statement of the risk, in whatever     *)
(* status the request is, and moves on a request that waits for it.        *)
NextStatus(acks) ==
  IF request.status = "PendingRiskAcknowledgment" /\ AllRisksAcknowledged(acks)
  THEN CASE request.validation.approval = "None"             -> "Approved"
         [] request.validation.approval = "AdminReview"      -> "PendingAdminApproval"
         [] request.validation.approval = "MultiSigRequired" -> "PendingMultiSigApproval"
  ELSE request.status

Acknowledge(risk) ==
  LET stated == {i \in DOMAIN request.acks : request.acks[i].risk = risk}
      acks == [request.acks EXCEPT ![Min(stated)].acknowledged = TRUE]
  IN  /\ stated # {}
      /\ request' = [request EXCEPT !.acks = acks, !.status = NextStatus(acks)]
      /\ trail' = trail \cup {NextStatus(acks)}

Cancel == MoveTo("CancelledByUser")

AdminApproveAnyPending ==   \* mutant: the risks may still be unacknowledged
  request.status \notin Final /\ MoveTo("Approved")

AdminApprove == request.status = "PendingAdminApproval" /\ MoveTo("Approved")

AdminReject ==
  /\ request.status \in {"PendingAdminApproval", "PendingMultiSigApproval"}
  /\ MoveTo("RejectedByAdmin")

Risks == {"TradingRisk", "DrawdownRisk", "CapitalLossRisk", "PastPerformance", "StrategySpecific"}

Handle ==
  /\ request # None
  /\ \/ ConfirmReview \/ Cancel \/ AdminApprove \/ AdminReject
     \/ \E risk \in Risks : Acknowledge(risk)

Next ==
  \/ request = None /\ RunnerNext /\ UNCHANGED <<request, trail>>
  \/ (PrepareDeployment \/ RequestElsewhere \/ Handle) /\ UNCHANGED runnerVars

Spec == Init /\ [][Next]_vars

---------------------------------------------------------------------------
(* An approved request has passed the platform's limits, every statement   *)
(* of its risks is acknowledged, it was never rejected or cancelled, an    *)
(* administrator saw it if the capital calls for that, and the capital is  *)
(* below what several signatures are needed for: nothing collects them.    *)
ApprovedIsEarned ==
  request # None =>
    (request.status = "Approved" =>
       /\ request.metrics.days >= MinDays
       /\ \A i \in DOMAIN request.acks : request.acks[i].acknowledged
       /\ trail \cap Final = {}
       /\ request.config.capital >= AdminThreshold => "PendingAdminApproval" \in trail
       /\ request.config.capital < MultiSigThreshold)

=============================================================================
