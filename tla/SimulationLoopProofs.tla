------------------------ MODULE SimulationLoopProofs ------------------------
(***************************************************************************)
(* Proofs about SimulationLoop, for every set of prices, sizes, batches,   *)
(* latencies and detector settings.                                        *)
(***************************************************************************)
EXTENDS SimulationLoop, TLAPS

(* Forgetting orders keeps the active set and the trackers in step.        *)
LEMMA ForgetAgrees ==
  ASSUME ActiveAreTracked, NEW gone, Forget(gone)
  PROVE  ActiveAreTracked'
<1>1. active' = active \ gone
  BY DEF Forget
<1>2. DOMAIN trackers' = DOMAIN trackers \cap (DOMAIN trackers \ gone)
  BY DEF Forget, Restrict
<1> QED
  BY <1>1, <1>2 DEF ActiveAreTracked

LEMMA CancelAgrees ==
  ASSUME ActiveAreTracked, NEW sigs, CancelPrevious(sigs)
  PROVE  ActiveAreTracked'
<1>1. CASE sigs = <<>>
  BY <1>1 DEF CancelPrevious, ActiveAreTracked
<1>2. CASE sigs # <<>>
  BY <1>2, ForgetAgrees DEF CancelPrevious
<1> QED
  BY <1>1, <1>2

(* The active set and the tracker map start empty and agree after every    *)
(* phase of the loop: no order is cancelled, timed or filled by one of     *)
(* them and unknown to the other.                                          *)
THEOREM ActiveOrdersTracked == Spec => []ActiveAreTracked
<1>1. Init => ActiveAreTracked
  BY DEF Init, ActiveAreTracked
<1>2. ActiveAreTracked /\ [Next]_vars => ActiveAreTracked'
  <2> SUFFICES ASSUME ActiveAreTracked, [Next]_vars
               PROVE  ActiveAreTracked'
    OBVIOUS
  <2>1. ASSUME NEW s, NEW p, NEW q, NEW e, Trade(s, p, q, e)
        PROVE  ActiveAreTracked'
    BY <2>1, ForgetAgrees DEF Trade
  <2>2. ASSUME NEW batch, RunStrategies(batch)
        PROVE  ActiveAreTracked'
    BY <2>2, CancelAgrees DEF RunStrategies
  <2>3. CASE ReuseSignals
    BY <2>3, CancelAgrees DEF ReuseSignals
  <2>4. CASE Submit
    <3>1. active' = active \cup {Signal.id}
      BY <2>4 DEF Submit
    <3>2. DOMAIN trackers' = {Signal.id} \cup DOMAIN trackers
      BY <2>4 DEF Submit, Put
    <3> QED
      BY <3>1, <3>2 DEF ActiveAreTracked
  <2>5. ASSUME UNCHANGED <<active, trackers>>
        PROVE  ActiveAreTracked'
    BY <2>5 DEF ActiveAreTracked
  <2>6. ASSUME NEW p, NEW e, OtherItem(p, e)
        PROVE  ActiveAreTracked'
    BY <2>6, <2>5 DEF OtherItem
  <2>7. CASE Finish \/ SkipSignals \/ RefuseSignal \/ HaltOnSignal \/ MatchIteration \/ MatchEnd \/ EndItem
    BY <2>7, <2>5 DEF Finish, SkipSignals, RefuseSignal, HaltOnSignal, MatchIteration, MatchEnd, EndItem
  <2>8. ASSUME NEW ok, CheckAccount(ok)
        PROVE  ActiveAreTracked'
    BY <2>8, <2>5 DEF CheckAccount
  <2>9. CASE UNCHANGED vars
    BY <2>9, <2>5 DEF vars
  <2> QED
    BY <2>1, <2>2, <2>3, <2>4, <2>6, <2>7, <2>8, <2>9 DEF Next
<1> QED
  BY <1>1, <1>2, PTL DEF Spec
=============================================================================
