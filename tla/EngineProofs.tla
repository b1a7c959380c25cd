---------------------------- MODULE EngineProofs ----------------------------
(* What holds of the engine for all data, settings and outcomes.           *)
EXTENDS Engine, TLAPS

LEMMA AnEmbargoIsADay ==
  ASSUME NEW distance \in Int
  PROVE  EmbargoDays(distance) \in Nat /\ EmbargoDays(distance) >= 1
<1>1. CASE distance > 0
  <2>1. PICK q \in Int : q = Day \div distance
    BY <1>1, EngineAssumption
  <2>2. PICK b \in Nat : b >= 1 /\ b = Greater(q, 1)
    BY <2>1 DEF Greater
  <2>3. PICK raw \in Int : raw = (200 + b - 1) \div b
    BY <2>2
  <2>4. Lesser(Greater(raw, 1), 14) \in Nat /\ Lesser(Greater(raw, 1), 14) >= 1
    BY <2>3 DEF Lesser, Greater
  <2>5. EmbargoDays(distance) = Lesser(Greater(raw, 1), 14)
    BY <1>1, <2>1, <2>2, <2>3 DEF EmbargoDays
  <2> QED
    BY <2>4, <2>5
<1>2. CASE ~(distance > 0)
  BY <1>2 DEF EmbargoDays
<1> QED
  BY <1>1, <1>2

LEMMA AnElement ==
  ASSUME NEW S, NEW s \in Seq(S), NEW i \in 1 .. Len(s)
  PROVE  s[i] \in S
  OBVIOUS

LEMMA SpansAreWhole ==
  ASSUME NEW bars, IsData(bars)
  PROVE  Span(bars) \in Int
<1>1. Len(bars) \in Nat
  BY DEF IsData
<1>2. CASE Len(bars) < 2
  BY <1>2 DEF Span
<1>3. CASE ~(Len(bars) < 2)
  <2>1. 1 \in 1 .. Len(bars) /\ Len(bars) \in 1 .. Len(bars)
    BY <1>1, <1>3
  <2>2. bars[1] \in [at : Nat, price : Int, real : BOOLEAN]
    BY <2>1, AnElement, Zenon DEF IsData
  <2>3. bars[Len(bars)] \in [at : Nat, price : Int, real : BOOLEAN]
    BY <2>1, AnElement, Zenon DEF IsData
  <2>4. bars[1].at \in Nat /\ bars[Len(bars)].at \in Nat
    BY <2>2, <2>3
  <2> QED
    BY <1>3, <2>4 DEF Span
<1> QED
  BY <1>2, <1>3

LEMMA DaysDoNotFit ==
  ASSUME NEW span \in Int, NEW day \in Nat \ {0}, NEW more \in Nat, more >= 1
  PROVE  ~((span \div day + more) * day <= span)
<1>1. PICK q \in Int : q = span \div day
  OBVIOUS
<1>2. span < q * day + day
  BY <1>1
<1>3. more * day >= day
  OBVIOUS
<1>4. (q + more) * day = q * day + more * day
  OBVIOUS
<1>5. q * day \in Int /\ more * day \in Int
  OBVIOUS
<1>6. ~((q + more) * day <= span)
  BY <1>2, <1>3, <1>4, <1>5
<1> QED
  BY <1>1, <1>6

(* Training and testing take all whole days of the data, and the embargo is*)
(* at least one more: no window fits, however long the data.               *)
THEOREM NoWindowFits ==
  ASSUME NEW bars, IsData(bars), MedianDistance(bars) \in Int
  PROVE  Windows(bars) = {}
<1>1. PICK span \in Int : span = Span(bars)
  BY SpansAreWhole
<1>2. PICK days \in Int : days = WholeDays(bars)
  BY <1>1, EngineAssumption DEF WholeDays
<1>3. PICK training \in Int : training = (67 * days) \div 100
  OBVIOUS
<1>4. PICK embargo \in Nat : embargo >= 1 /\ embargo = EmbargoDays(MedianDistance(bars))
  BY AnEmbargoIsADay
<1>5. PICK step \in Nat : step = Greater(days - training, 7)
  <2>1. PICK testing \in Int : testing = days - training
    OBVIOUS
  <2>2. Greater(testing, 7) \in Nat
    BY <2>1 DEF Greater
  <2> QED
    BY <2>1, <2>2
<1>6. ASSUME NEW k \in 0 .. days
      PROVE  ~((k * step + training + embargo + (days - training)) * Day <= span)
  <2>1. PICK start \in Nat : start = k * step
    BY <1>5
  <2>2. PICK more \in Nat : more >= 1 /\ more = start + embargo
    BY <1>4, <2>1
  <2>3. days = span \div Day
    BY <1>1, <1>2 DEF WholeDays
  <2>4. ~((days + more) * Day <= span)
    BY <2>2, <2>3, DaysDoNotFit, EngineAssumption
  <2>5. k * step + training + embargo + (days - training) = days + more
    BY <2>1, <2>2, <1>3, <1>4
  <2> QED
    BY <2>4, <2>5
<1> QED
  BY <1>1, <1>2, <1>3, <1>4, <1>5, <1>6 DEF Windows

Measured == IsData(data) /\ MedianDistance(data) \in Int

Inv ==
  /\ stage \in {"start", "search", "simulate", "escalate", "monteCarlo"} => windows = None
  /\ Measured => WalkForwardTestsNothing

LEMMA InvInit == Init => Inv
  BY DEF Init, Inv, WalkForwardTestsNothing

LEMMA InvNext == Inv /\ [Next]_vars => Inv'
<1> SUFFICES ASSUME Inv, [Next]_vars PROVE Inv'
  OBVIOUS
<1>1. CASE PrepareData
  BY <1>1 DEF PrepareData, Inv, WalkForwardTestsNothing
<1>2. CASE WalkForward
  <2>1. stage' = "report" /\ data' = data
    BY <1>2 DEF WalkForward
  <2>2. Measured => windows' = {}
    BY <1>2, NoWindowFits DEF WalkForward, Measured
  <2>3. Measured' => Measured
    BY <2>1 DEF Measured
  <2> QED
    BY <2>1, <2>2, <2>3 DEF Inv, WalkForwardTestsNothing
<1>3. CASE \/ Search \/ SearchFails \/ Simulate \/ Escalate
           \/ RunMonteCarlo \/ EndMonteCarlo \/ UNCHANGED vars
  <2>1. /\ windows' = windows /\ data' = data
        /\ stage' \in {"start", "search", "simulate", "escalate", "monteCarlo"} =>
             stage \in {"start", "search", "simulate", "escalate", "monteCarlo"}
    BY <1>3 DEF Search, SearchFails, Simulate, Escalate, RunMonteCarlo, EndMonteCarlo, vars
  <2>2. Measured' => Measured
    BY <2>1 DEF Measured
  <2> QED
    BY <2>1, <2>2 DEF Inv, WalkForwardTestsNothing
<1> QED
  BY <1>1, <1>2, <1>3 DEF Next

(* So the stage that the report lists never tests anything. That the times *)
(* of filled data are times is what FillingIsFaithful checks.              *)
THEOREM NothingIsTested == Spec => [](Measured => WalkForwardTestsNothing)
<1>1. Inv => (Measured => WalkForwardTestsNothing)
  BY DEF Inv
<1> QED
  BY <1>1, InvInit, InvNext, PTL DEF Spec
=============================================================================
