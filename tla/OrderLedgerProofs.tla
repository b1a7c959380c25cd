-------------------------- MODULE OrderLedgerProofs --------------------------
(***************************************************************************)
(* What OrderLedger keeps for any set of orders and any quantities. That   *)
(* an order book implements OrderLedger is a property of OrderBook.        *)
(***************************************************************************)
EXTENDS OrderLedger, TLAPS

(* Types alone are not inductive: an amendment takes from what was placed, *)
(* and only conservation says that there is as much.                       *)
LedgerInv == LedgerTypeOK /\ Conserved

LEMMA LedgerInvInit == LedgerInit => LedgerInv
BY DEF LedgerInit, LedgerInv, LedgerTypeOK, Conserved, Amounts

LEMMA LedgerTypeStep == LedgerInv /\ [LedgerNext]_ledgerVars => LedgerTypeOK'
<1> SUFFICES ASSUME LedgerTypeOK, Conserved, [LedgerNext]_ledgerVars PROVE LedgerTypeOK'
  BY DEF LedgerInv
<1> USE DEF LedgerTypeOK, Amounts
<1>1. ASSUME NEW o \in OrderIds, Submit(o) PROVE LedgerTypeOK'
  <2>1. placed' \in Amounts /\ \A x \in OrderIds \ {o} : placed'[x] = placed[x]
    BY <1>1 DEF Submit
  <2>2. CASE live' = live \cup {o} /\ open' = [open EXCEPT ![o] = placed'[o]] /\ UNCHANGED withdrawn
    BY <1>1, <2>1, <2>2 DEF Submit
  <2>3. CASE UNCHANGED <<live, open>> /\ withdrawn' = [withdrawn EXCEPT ![o] = placed'[o]]
    BY <1>1, <2>1, <2>3 DEF Submit
  <2> QED
    BY <1>1, <2>2, <2>3 DEF Submit
<1>2. CASE Trade
  <2>1. \A o \in OrderIds : open'[o] \in Nat /\ (o \notin live => open'[o] = 0)
    <3> SUFFICES ASSUME NEW o \in OrderIds PROVE open'[o] \in Nat /\ (o \notin live => open'[o] = 0)
      OBVIOUS
    <3>1. taken'[o] \in Nat /\ taken[o] \in Nat /\ open[o] \in Nat /\ taken'[o] - taken[o] \in 0 .. open[o]
      BY <1>2 DEF Trade
    <3>2. open'[o] = open[o] - (taken'[o] - taken[o])
      BY <1>2 DEF Trade
    <3> QED
      BY <3>1, <3>2
  <2>2. open' \in Amounts
    BY <1>2, <2>1 DEF Trade
  <2> QED
    BY <1>2, <2>1, <2>2 DEF Trade
<1>3. ASSUME NEW o \in live, Amend(o) PROVE LedgerTypeOK'
  <2>1. o \in OrderIds
    OBVIOUS
  <2>2. /\ placed[o] \in Nat /\ taken[o] \in Nat /\ withdrawn[o] \in Nat /\ open[o] \in Nat
        /\ placed[o] = taken[o] + withdrawn[o] + open[o]
    BY <2>1 DEF Conserved
  <2>3. open'[o] \in Nat /\ placed'[o] = placed[o] + (open'[o] - open[o])
    BY <1>3, <2>1 DEF Amend
  <2>4. placed'[o] \in Nat
    BY <2>2, <2>3
  <2>5. placed' \in Amounts
    BY <1>3, <2>4 DEF Amend
  <2> QED
    BY <1>3, <2>5 DEF Amend
<1>4. CASE Withdraw
  BY <1>4 DEF Withdraw
<1>5. CASE UNCHANGED ledgerVars
  BY <1>5 DEF ledgerVars
<1> QED
  BY <1>1, <1>2, <1>3, <1>4, <1>5 DEF LedgerNext

LEMMA LedgerConservedStep == LedgerInv /\ [LedgerNext]_ledgerVars => Conserved'
<1> SUFFICES ASSUME LedgerTypeOK, Conserved, LedgerTypeOK', [LedgerNext]_ledgerVars, NEW o \in OrderIds
             PROVE  placed'[o] = taken'[o] + withdrawn'[o] + open'[o]
  BY LedgerTypeStep DEF LedgerInv, Conserved
<1>1. /\ placed[o] \in Nat /\ taken[o] \in Nat /\ withdrawn[o] \in Nat /\ open[o] \in Nat
      /\ placed'[o] \in Nat /\ taken'[o] \in Nat /\ withdrawn'[o] \in Nat /\ open'[o] \in Nat
      /\ placed[o] = taken[o] + withdrawn[o] + open[o]
  BY DEF LedgerTypeOK, Amounts, Conserved
<1> USE DEF LedgerTypeOK, Amounts
<1>2. ASSUME NEW x \in OrderIds, Submit(x) PROVE placed'[o] = taken'[o] + withdrawn'[o] + open'[o]
  <2>1. CASE o # x
    <3>1. /\ placed'[o] = placed[o] /\ taken'[o] = taken[o]
          /\ withdrawn'[o] = withdrawn[o] /\ open'[o] = open[o]
      BY <1>2, <2>1 DEF Submit
    <3> QED
      BY <1>1, <3>1
  <2>2. CASE o = x
    <3>1. placed[o] = 0 /\ open[o] = 0 /\ taken'[o] = taken[o]
      BY <1>2, <2>2 DEF Submit
    <3>2. taken[o] = 0 /\ withdrawn[o] = 0
      BY <1>1, <3>1
    <3>3. \/ open'[o] = placed'[o] /\ withdrawn'[o] = withdrawn[o]
          \/ open'[o] = open[o] /\ withdrawn'[o] = placed'[o]
      BY <1>2, <2>2 DEF Submit
    <3> QED
      BY <1>1, <3>1, <3>2, <3>3
  <2> QED
    BY <2>1, <2>2
<1>3. CASE Trade
  <2>1. /\ placed'[o] = placed[o] /\ withdrawn'[o] = withdrawn[o]
        /\ open'[o] = open[o] - (taken'[o] - taken[o])
    BY <1>3 DEF Trade
  <2> QED
    BY <1>1, <2>1
<1>4. ASSUME NEW x \in live, Amend(x) PROVE placed'[o] = taken'[o] + withdrawn'[o] + open'[o]
  <2>1. taken'[o] = taken[o] /\ withdrawn'[o] = withdrawn[o]
    BY <1>4 DEF Amend
  <2>2. CASE o # x
    <3>1. placed'[o] = placed[o] /\ open'[o] = open[o]
      BY <1>4, <2>2 DEF Amend
    <3> QED
      BY <1>1, <2>1, <3>1
  <2>3. CASE o = x
    <3>1. placed'[o] = placed[o] + (open'[o] - open[o])
      BY <1>4, <2>3 DEF Amend
    <3> QED
      BY <1>1, <2>1, <3>1
  <2> QED
    BY <2>2, <2>3
<1>5. CASE Withdraw
  <2>1. placed'[o] = placed[o] /\ taken'[o] = taken[o]
    BY <1>5 DEF Withdraw
  <2>2. CASE o \in live \ live'
    <3>1. withdrawn'[o] = withdrawn[o] + open[o] /\ open'[o] = 0
      BY <1>5, <2>2 DEF Withdraw
    <3> QED
      BY <1>1, <2>1, <3>1
  <2>3. CASE o \notin live \ live'
    <3>1. withdrawn'[o] = withdrawn[o] /\ open'[o] = open[o]
      BY <1>5, <2>3 DEF Withdraw
    <3> QED
      BY <1>1, <2>1, <3>1
  <2> QED
    BY <2>2, <2>3
<1>6. CASE UNCHANGED ledgerVars
  BY <1>1, <1>6 DEF ledgerVars
<1> QED
  BY <1>2, <1>3, <1>4, <1>5, <1>6 DEF LedgerNext

(* Whatever sequence of submissions, trades, amendments and withdrawals an *)
(* order goes through, every lot placed was traded, withdrawn or rests.    *)
THEOREM LedgerConserves == LedgerSpec => [](LedgerTypeOK /\ Conserved)
<1>1. LedgerInv /\ [LedgerNext]_ledgerVars => LedgerInv'
  BY LedgerTypeStep, LedgerConservedStep DEF LedgerInv
<1>2. LedgerInv => LedgerTypeOK /\ Conserved
  BY DEF LedgerInv
<1> QED
  BY <1>1, <1>2, LedgerInvInit, PTL DEF LedgerSpec
=============================================================================
