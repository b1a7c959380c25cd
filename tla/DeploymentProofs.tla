-------------------------- MODULE DeploymentProofs --------------------------
(***************************************************************************)
(* What an approval stands for, for any analyses, metrics, users and       *)
(* limits, and whatever the user and the administrators call in whichever  *)
(* order.                                                                  *)
(***************************************************************************)
EXTENDS Deployment, TLAPS

StatementType == [risk : Risks, acknowledged : BOOLEAN]

Approvals == {"None", "AdminReview", "MultiSigRequired"}
Statuses == Final \cup {"PendingUserReview", "PendingRiskAcknowledgment", "PendingAdminApproval",
                        "PendingMultiSigApproval", "Approved"}

(* The statuses that follow the last acknowledgment.                       *)
Signed == {"PendingAdminApproval", "PendingMultiSigApproval", "Approved"}

IsRequest ==
  request = [windows |-> request.windows, metrics |-> request.metrics, config |-> request.config,
             validation |-> request.validation, acks |-> request.acks, status |-> request.status]

TypeOK ==
  /\ IsRequest
  /\ request.acks \in Seq(StatementType)
  /\ request.status \in Statuses
  /\ trail \subseteq Statuses /\ request.status \in trail

(* The parts of a request that never change: what the limits said of it.   *)
Judged ==
  /\ request.config.capital \in Nat
  /\ request.validation.approval = RequiredApproval(request.config.capital)
  /\ request.status # "RejectedByPlatform" /\ "RejectedByPlatform" \notin trail
       => request.metrics.days >= MinDays

(* A request that has left the path of approval does not return to it.     *)
OnThePath == request.status \notin Final => trail \cap Final = {}

(* What has been done for the request to be where it is.                   *)
Advanced ==
  /\ request.status \in Signed => AllRisksAcknowledged(request.acks)
  /\ request.status = "PendingAdminApproval" => request.validation.approval = "AdminReview"
  /\ request.status = "Approved" =>
       \/ request.validation.approval = "None"
       \/ request.validation.approval = "AdminReview" /\ "PendingAdminApproval" \in trail

RequestOK == TypeOK /\ Judged /\ OnThePath /\ Advanced

Inv == request # None => RequestOK

---------------------------------------------------------------------------
LEMMA StatementsAreTyped ==
  ASSUME NEW metrics, NEW config
  PROVE  RequiredAcknowledgments(metrics, config) \in Seq(StatementType)
<1>1. \A risk \in Risks : Statement(risk) \in StatementType
  BY DEF Statement, StatementType
<1>2. \A risk \in Risks : \A required : Statements(risk, required) \in Seq(StatementType)
  BY <1>1 DEF Statements
<1>3. <<Statement("TradingRisk"), Statement("PastPerformance")>> \in Seq(StatementType)
  BY <1>1 DEF Risks
<1>4. \A s, t \in Seq(StatementType) : s \o t \in Seq(StatementType)
  OBVIOUS
<1>5. /\ Statements("DrawdownRisk", metrics.drawdown > DrawdownThreshold) \in Seq(StatementType)
      /\ Statements("CapitalLossRisk", config.capital > CapitalLossThreshold) \in Seq(StatementType)
      /\ Statements("StrategySpecific", metrics.lowWinRate) \in Seq(StatementType)
      /\ Statements("StrategySpecific", metrics.unstable) \in Seq(StatementType)
  BY <1>2 DEF Risks
<1> QED
  BY <1>3, <1>4, <1>5, Zenon DEF RequiredAcknowledgments

LEMMA AcknowledgingKeepsTheRest ==
  ASSUME NEW acks \in Seq(StatementType), NEW m
  PROVE  LET marked == [acks EXCEPT ![m].acknowledged = TRUE]
         IN  /\ marked \in Seq(StatementType)
             /\ AllRisksAcknowledged(acks) => AllRisksAcknowledged(marked)
<1> DEFINE marked == [acks EXCEPT ![m].acknowledged = TRUE]
<1>1. DOMAIN marked = DOMAIN acks
  OBVIOUS
<1>2. \A i \in DOMAIN acks : acks[i] \in StatementType
  OBVIOUS
<1>3. ASSUME NEW i \in DOMAIN acks
      PROVE  /\ marked[i] \in StatementType
             /\ acks[i].acknowledged => marked[i].acknowledged
  <2>1. CASE i = m
    BY <1>2, <2>1 DEF StatementType
  <2>2. CASE i # m
    BY <1>2, <2>2
  <2> QED
    BY <2>1, <2>2
<1>4. PICK n \in Nat : DOMAIN acks = 1 .. n
  OBVIOUS
<1>5. marked \in [1 .. n -> StatementType]
  BY <1>1, <1>3, <1>4
<1>6. marked \in Seq(StatementType)
  BY <1>4, <1>5
<1>7. AllRisksAcknowledged(acks) => AllRisksAcknowledged(marked)
  BY <1>1, <1>3 DEF AllRisksAcknowledged
<1> QED
  BY <1>6, <1>7

---------------------------------------------------------------------------
(* A new request starts on the path, or has been rejected.                 *)
LEMMA NewRequestOK ==
  ASSUME NEW windows, NEW metrics, NEW config \in UserConfigs,
         NewRequest(windows, metrics, config)
  PROVE  RequestOK'
<1>1. /\ request'.acks = RequiredAcknowledgments(metrics, config)
      /\ request'.config = config /\ request'.metrics = metrics
      /\ request'.validation = Validation(metrics, config)
      /\ trail' = {request'.status}
      /\ request'.status = IF metrics.days >= MinDays THEN "PendingUserReview" ELSE "RejectedByPlatform"
  BY DEF NewRequest, Validation
<1>2. TypeOK'
  <2>1. IsRequest'
    BY DEF NewRequest, IsRequest
  <2> QED
    BY <1>1, <2>1, StatementsAreTyped DEF TypeOK, Statuses, Final
<1>3. Judged'
  BY <1>1, DeploymentAssumption DEF Judged, Validation
<1>4. OnThePath'
  BY <1>1 DEF OnThePath, Final
<1>5. Advanced'
  BY <1>1 DEF Advanced, Signed
<1> QED
  BY <1>2, <1>3, <1>4, <1>5 DEF RequestOK

(* A call changes the status, the acknowledgments and nothing else.        *)
LEMMA CallsKeepTheRest ==
  ASSUME IsRequest, NEW acks, NEW status,
         request' = [request EXCEPT !.acks = acks, !.status = status]
  PROVE  /\ IsRequest' /\ request'.acks = acks /\ request'.status = status
         /\ request'.metrics = request.metrics /\ request'.config = request.config
         /\ request'.validation = request.validation
<1>1. PICK w, m, c, v, a, s :
        request = [windows |-> w, metrics |-> m, config |-> c, validation |-> v,
                   acks |-> a, status |-> s]
  BY Zenon DEF IsRequest
<1>2. request' = [windows |-> w, metrics |-> m, config |-> c, validation |-> v,
                  acks |-> acks, status |-> status]
  BY <1>1
<1> QED
  BY <1>1, <1>2 DEF IsRequest

LEMMA MovesKeepTheRest ==
  ASSUME IsRequest, NEW status, MoveTo(status)
  PROVE  /\ IsRequest' /\ request'.acks = request.acks /\ request'.status = status
         /\ request'.metrics = request.metrics /\ request'.config = request.config
         /\ request'.validation = request.validation
         /\ trail' = trail \cup {status}
<1>1. PICK w, m, c, v, a, s :
        request = [windows |-> w, metrics |-> m, config |-> c, validation |-> v,
                   acks |-> a, status |-> s]
  BY Zenon DEF IsRequest
<1>2. request' = [windows |-> w, metrics |-> m, config |-> c, validation |-> v,
                  acks |-> a, status |-> status]
  BY <1>1 DEF MoveTo
<1> QED
  BY <1>1, <1>2 DEF IsRequest, MoveTo

(* Each call keeps what the requests stand for.                            *)
LEMMA HandlingOK ==
  ASSUME request # None, RequestOK, Handle
  PROVE  RequestOK'
<1> USE DEF RequestOK
<1>a. IsRequest
  BY DEF TypeOK
<1>1. CASE ConfirmReview
  <2>1. request.status = "PendingUserReview" /\ MoveTo("PendingRiskAcknowledgment")
    BY <1>1 DEF ConfirmReview
  <2> QED
    BY <1>a, <2>1, MovesKeepTheRest
    DEF TypeOK, Judged, OnThePath, Advanced, Statuses, Final, Signed
<1>2. CASE Cancel
  BY <1>a, <1>2, MovesKeepTheRest
  DEF Cancel, TypeOK, Judged, OnThePath, Advanced, Statuses, Final, Signed
<1>3. CASE AdminApprove
  <2>1. request.status = "PendingAdminApproval" /\ MoveTo("Approved")
    BY <1>3 DEF AdminApprove
  <2> QED
    BY <1>a, <2>1, MovesKeepTheRest
    DEF TypeOK, Judged, OnThePath, Advanced, Statuses, Final, Signed
<1>4. CASE AdminReject
  BY <1>a, <1>4, MovesKeepTheRest
  DEF AdminReject, TypeOK, Judged, OnThePath, Advanced, Statuses, Final, Signed
<1>5. ASSUME NEW risk \in Risks, Acknowledge(risk)
      PROVE  RequestOK'
  <2>1. PICK m, acks :
          /\ acks = [request.acks EXCEPT ![m].acknowledged = TRUE]
          /\ request' = [request EXCEPT !.acks = acks, !.status = NextStatus(acks)]
          /\ trail' = trail \cup {NextStatus(acks)}
    BY <1>5 DEF Acknowledge
  <2>2. /\ acks \in Seq(StatementType)
        /\ AllRisksAcknowledged(request.acks) => AllRisksAcknowledged(acks)
    BY <2>1, AcknowledgingKeepsTheRest DEF TypeOK
  <2>3. PICK status : status = NextStatus(acks)
    OBVIOUS
  <2>4. /\ IsRequest' /\ request'.acks = acks /\ request'.status = status
        /\ request'.metrics = request.metrics /\ request'.config = request.config
        /\ request'.validation = request.validation
        /\ trail' = trail \cup {status}
    BY <1>a, <2>1, <2>3, CallsKeepTheRest
  <2>5. request.validation.approval \in Approvals
    BY DEF Judged, RequiredApproval, Approvals
  <2>6. \/ status = request.status
        \/ /\ request.status = "PendingRiskAcknowledgment" /\ AllRisksAcknowledged(acks)
           /\ \/ request.validation.approval = "None" /\ status = "Approved"
              \/ request.validation.approval = "AdminReview" /\ status = "PendingAdminApproval"
              \/ request.validation.approval = "MultiSigRequired" /\ status = "PendingMultiSigApproval"
    BY <2>3, <2>5 DEF NextStatus, Approvals
  <2>7. TypeOK'
    BY <2>2, <2>4, <2>6 DEF TypeOK, Statuses
  <2>8. Judged'
    BY <2>4, <2>6 DEF Judged
  <2>9. OnThePath'
    BY <2>4, <2>6 DEF OnThePath, Final, TypeOK
  <2>10. Advanced'
    BY <2>2, <2>4, <2>6 DEF Advanced, Signed
  <2> QED
    BY <2>7, <2>8, <2>9, <2>10
<1> QED
  BY <1>1, <1>2, <1>3, <1>4, <1>5 DEF Handle

---------------------------------------------------------------------------
LEMMA InvInit == Init => Inv
BY DEF Init, Inv

LEMMA InvNext == Inv /\ [Next]_vars => Inv'
<1> SUFFICES ASSUME Inv, [Next]_vars PROVE Inv'
  OBVIOUS
<1>1. CASE UNCHANGED <<request, trail>>
  BY <1>1 DEF Inv, RequestOK, TypeOK, IsRequest, Judged, OnThePath, Advanced
<1>2. CASE PrepareDeployment
  BY <1>2, NewRequestOK DEF PrepareDeployment, Inv
<1>3. CASE RequestElsewhere
  BY <1>3, NewRequestOK DEF RequestElsewhere, Inv
<1>4. CASE Handle
  <2>1. request # None
    BY <1>4 DEF Handle
  <2> QED
    BY <1>4, <2>1, HandlingOK DEF Inv
<1> QED
  BY <1>1, <1>2, <1>3, <1>4 DEF Next, vars

LEMMA InvImplies == Inv => ApprovedIsEarned
<1> SUFFICES ASSUME Inv, request # None, request.status = "Approved"
             PROVE  /\ request.metrics.days >= MinDays
                    /\ \A i \in DOMAIN request.acks : request.acks[i].acknowledged
                    /\ trail \cap Final = {}
                    /\ request.config.capital >= AdminThreshold => "PendingAdminApproval" \in trail
                    /\ request.config.capital < MultiSigThreshold
  BY DEF ApprovedIsEarned
<1>1. TypeOK /\ Judged /\ OnThePath /\ Advanced
  BY DEF Inv, RequestOK
<1>2. trail \cap Final = {}
  BY <1>1 DEF OnThePath, Final
<1>3. request.metrics.days >= MinDays
  BY <1>1, <1>2 DEF Judged, Final
<1>4. \A i \in DOMAIN request.acks : request.acks[i].acknowledged
  BY <1>1 DEF Advanced, Signed, AllRisksAcknowledged
<1>5. /\ request.config.capital >= AdminThreshold => "PendingAdminApproval" \in trail
      /\ request.config.capital < MultiSigThreshold
  BY <1>1, DeploymentAssumption DEF Judged, Advanced, RequiredApproval
<1> QED
  BY <1>2, <1>3, <1>4, <1>5

(* An approval stands for the limits, the acknowledgments, the review of an*)
(* administrator where it is called for, and a path without a rejection,   *)
(* whatever is called in whichever order.                                  *)
THEOREM ApprovalIsEarned == Spec => []ApprovedIsEarned
<1>1. Spec => []Inv
  BY InvInit, InvNext, PTL DEF Spec
<1> QED
  BY <1>1, InvImplies, PTL

---------------------------------------------------------------------------
(* The tests of the runner.                                                *)

(* A slice of ticks begins on the day it is asked for if there is data of  *)
(* that day.                                                               *)
LEMMA DayUpToIsTheDay ==
  ASSUME NEW a \in Analyses, NEW date \in a.data, NEW otherwise
  PROVE  DayUpTo(a, date, otherwise) = date
<1> DEFINE before == {d \in a.data : d <= date}
<1>1. a.data \subseteq Nat /\ date \in Nat
  BY AnalysesAssumption
<1>2. date \in before /\ \A d \in before : d \in Nat /\ d <= date
  BY <1>1
<1>3. Max(before) \in before /\ \A d \in before : Max(before) >= d
  BY <1>2 DEF Max
<1>4. Max(before) = date
  BY <1>2, <1>3
<1> QED
  BY <1>2, <1>4 DEF DayUpTo

LEMMA WindowsAreDates ==
  ASSUME NEW a \in Analyses, NEW k \in Nat
  PROVE  /\ Window(a, k).trainEnd \in Nat /\ Window(a, k).testStart \in Nat
         /\ Window(a, k).testStart = Window(a, k).trainEnd + a.embargo
<1>1. a.start \in Nat /\ a.train \in Nat /\ a.embargo \in Nat /\ a.step \in Nat
  BY AnalysesAssumption
<1>2. k * a.step \in Nat
  BY <1>1
<1>3. PICK trained \in Nat : trained = a.start + a.train + k * a.step
  BY <1>1, <1>2
<1> QED
  BY <1>1, <1>3 DEF Window

LEMMA TestsSeeNothingBefore ==
  ASSUME NEW a \in Analyses, NEW k \in Nat,
         a.kind = "candles" \/ Window(a, k).testStart \in a.data,
         NEW d \in Tested(a, Window(a, k))
  PROVE  d >= Window(a, k).trainEnd + a.embargo
<1> DEFINE w == Window(a, k)
<1>1. a.kind \in {"candles", "streaming", "params"} /\ a.data \subseteq Nat
  BY AnalysesAssumption
<1>2. w.testStart = w.trainEnd + a.embargo
  BY WindowsAreDates
<1>3. w.testStart \in a.data => DayUpTo(a, w.testStart, 0) = w.testStart
  BY DayUpToIsTheDay
<1>4. PICK until : d \in Days(a, w.testStart, until)
  <2>1. CASE a.kind = "candles"
    BY <2>1 DEF Tested
  <2>2. CASE a.kind = "streaming"
    BY <1>3, <2>2 DEF Tested
  <2>3. CASE a.kind = "params"
    BY <1>3, <2>3 DEF Tested
  <2> QED
    BY <1>1, <2>1, <2>2, <2>3
<1> HIDE DEF w
<1>5. w.testStart <= d
  BY <1>4 DEF Days
<1>6. w.testStart \in Nat /\ d \in Nat
  BY <1>1, <1>4, WindowsAreDates DEF Days, w
<1> QED
  BY <1>2, <1>5, <1>6 DEF w

(* What has been tested are slices of windows of the analysis.             *)
OfAWindow(a, r) ==
  \E k \in Nat : r.window = Window(a, k) /\ r.tested = Tested(a, Window(a, k))

RunnerInv ==
  /\ analysis \in Analyses /\ awaited \in Nat
  /\ \E S : results \in Seq(S)
  /\ DOMAIN tasks \subseteq Nat \ {0}
  /\ \A k \in DOMAIN tasks : tasks[k] \in {Pending, Failed} \/ OfAWindow(analysis, tasks[k])
  /\ \A i \in DOMAIN results : OfAWindow(analysis, results[i])

LEMMA AResultIsOfAWindow ==
  ASSUME NEW k \in Nat \ {0}, NEW metrics
  PROVE  OfAWindow(analysis, Result(k, metrics))
<1>1. k - 1 \in Nat
  OBVIOUS
<1> QED
  BY <1>1 DEF OfAWindow, Result

LEMMA AppendingResults ==
  ASSUME NEW S, NEW s \in Seq(S), NEW r, NEW a, OfAWindow(a, r),
         \A i \in DOMAIN s : OfAWindow(a, s[i])
  PROVE  /\ \E T : Append(s, r) \in Seq(T)
         /\ \A i \in DOMAIN Append(s, r) : OfAWindow(a, Append(s, r)[i])
<1>1. s \in Seq(S \cup {r}) /\ r \in S \cup {r}
  OBVIOUS
<1>2. Append(s, r) \in Seq(S \cup {r})
  BY <1>1
<1>3. ASSUME NEW i \in DOMAIN Append(s, r)
      PROVE  OfAWindow(a, Append(s, r)[i])
  <2>1. CASE i = Len(s) + 1
    <3>1. Append(s, r)[i] = r
      BY <2>1
    <3> QED
      BY <3>1
  <2>2. CASE i # Len(s) + 1
    <3>1. i \in DOMAIN s /\ Append(s, r)[i] = s[i]
      BY <2>2
    <3> QED
      BY <3>1
  <2> QED
    BY <2>1, <2>2
<1> QED
  BY <1>2, <1>3

LEMMA RunnerInit0 == Init => RunnerInv
<1> SUFFICES ASSUME Init PROVE RunnerInv
  OBVIOUS
<1>1. /\ analysis \in Analyses /\ awaited = 0 /\ results = <<>>
      /\ tasks = [k \in 1 .. WindowCount(analysis) |-> Pending]
  BY DEF Init, RunnerInit
<1>2. results \in Seq({})
  BY <1>1
<1>3. DOMAIN tasks \subseteq Nat \ {0}
  BY <1>1
<1> QED
  BY <1>1, <1>2, <1>3 DEF RunnerInv

LEMMA EndingATask ==
  ASSUME RunnerInv, NEW k \in DOMAIN tasks, NEW r,
         r = Failed \/ OfAWindow(analysis, r), tasks' = [tasks EXCEPT ![k] = r]
  PROVE  /\ DOMAIN tasks' \subseteq Nat \ {0}
         /\ \A j \in DOMAIN tasks' :
              tasks'[j] \in {Pending, Failed} \/ OfAWindow(analysis, tasks'[j])
<1>1. DOMAIN tasks' = DOMAIN tasks /\ \A j \in DOMAIN tasks : tasks'[j] \in {tasks[j], r}
  OBVIOUS
<1> QED
  BY <1>1 DEF RunnerInv

LEMMA RunnerStep == RunnerInv /\ [Next]_vars => RunnerInv'
<1> SUFFICES ASSUME RunnerInv, [Next]_vars PROVE RunnerInv'
  OBVIOUS
<1>1. CASE UNCHANGED runnerVars
  BY <1>1 DEF runnerVars, RunnerInv
<1>2. ASSUME NEW k \in DOMAIN tasks, FinishTask(k) \/ FailTask(k)
      PROVE  RunnerInv'
  <2>1. /\ analysis' = analysis /\ awaited' = awaited /\ results' = results
        /\ \/ tasks' = [tasks EXCEPT ![k] = Failed]
           \/ tasks' = [tasks EXCEPT ![k] = Result(k, Placeholder)]
    BY <1>2 DEF FinishTask, FailTask
  <2>2. k \in Nat \ {0}
    BY DEF RunnerInv
  <2>3. OfAWindow(analysis, Result(k, Placeholder))
    BY <2>2, AResultIsOfAWindow
  <2>4. /\ DOMAIN tasks' \subseteq Nat \ {0}
        /\ \A j \in DOMAIN tasks' :
             tasks'[j] \in {Pending, Failed} \/ OfAWindow(analysis, tasks'[j])
    BY <2>1, <2>3, EndingATask
  <2> QED
    BY <2>1, <2>4 DEF RunnerInv
<1>3. CASE AwaitTask
  <2>1. /\ analysis' = analysis /\ tasks' = tasks /\ awaited' = awaited + 1
        /\ awaited + 1 \in DOMAIN tasks /\ tasks[awaited + 1] # Pending
        /\ results' = IF tasks[awaited + 1] = Failed THEN results
                      ELSE Append(results, tasks[awaited + 1])
    BY <1>3 DEF AwaitTask, Finished
  <2>2. CASE tasks[awaited + 1] = Failed
    BY <2>1, <2>2 DEF RunnerInv
  <2>3. CASE tasks[awaited + 1] # Failed
    <3>1. OfAWindow(analysis, tasks[awaited + 1])
      BY <2>1, <2>3 DEF RunnerInv
    <3>2. results' = Append(results, tasks[awaited + 1])
      BY <2>1, <2>3
    <3>3. PICK S : results \in Seq(S)
      BY DEF RunnerInv
    <3>4. /\ \E T : results' \in Seq(T)
          /\ \A i \in DOMAIN results' : OfAWindow(analysis, results'[i])
      <4>1. \A i \in DOMAIN results : OfAWindow(analysis, results[i])
        BY DEF RunnerInv
      <4> QED
        BY <3>1, <3>2, <3>3, <4>1, AppendingResults
    <3> QED
      BY <2>1, <3>4 DEF RunnerInv
  <2> QED
    BY <2>2, <2>3
<1>4. CASE TestTicks
  <2>1. PICK metrics :
          /\ tasks' = [tasks EXCEPT ![awaited + 1] = Result(awaited + 1, metrics)]
          /\ results' = Append(results, Result(awaited + 1, metrics))
    BY <1>4 DEF TestTicks
  <2>2. analysis' = analysis /\ awaited' = awaited + 1 /\ awaited + 1 \in DOMAIN tasks
    BY <1>4 DEF TestTicks, Finished
  <2>3. OfAWindow(analysis, Result(awaited + 1, metrics))
    <3>1. awaited + 1 \in Nat \ {0}
      BY <2>2 DEF RunnerInv
    <3> QED
      BY <3>1, AResultIsOfAWindow
  <2>4. /\ DOMAIN tasks' \subseteq Nat \ {0}
        /\ \A j \in DOMAIN tasks' :
             tasks'[j] \in {Pending, Failed} \/ OfAWindow(analysis, tasks'[j])
    BY <2>1, <2>2, <2>3, EndingATask
  <2>5. PICK S : results \in Seq(S)
    BY DEF RunnerInv
  <2>6. /\ \E T : results' \in Seq(T)
        /\ \A i \in DOMAIN results' : OfAWindow(analysis, results'[i])
    <3>1. \A i \in DOMAIN results : OfAWindow(analysis, results[i])
      BY DEF RunnerInv
    <3> QED
      BY <2>1, <2>3, <2>5, <3>1, AppendingResults
  <2> QED
    BY <2>2, <2>4, <2>6 DEF RunnerInv
<1> QED
  BY <1>1, <1>2, <1>3, <1>4 DEF Next, vars, RunnerNext

(* No test sees a day of the training before it or of the embargo, for any *)
(* windows, any data and any order of the tasks.                           *)
THEOREM NoTestSeesTraining == Spec => []TestedIsUnseen
<1>1. RunnerInv => TestedIsUnseen
  BY TestsSeeNothingBefore DEF RunnerInv, OfAWindow, TestedIsUnseen
<1>2. Spec => []RunnerInv
  BY RunnerInit0, RunnerStep, PTL DEF Spec
<1> QED
  BY <1>1, <1>2, PTL
=============================================================================
