---------------------------- MODULE OrderLedger ----------------------------
(***************************************************************************)
(* What an order book owes to each order, whatever its levels look like:   *)
(* quantity enters with the submission or an amendment, leaves by trades   *)
(* or by being withdrawn, and none is made or lost on the way. OrderBook   *)
(* implements this specification.                                          *)
(***************************************************************************)
EXTENDS Integers

CONSTANT OrderIds   \* the order ids that may be submitted

VARIABLES
  submitted,   \* ids that were submitted so far
  live,        \* ids that rest in the book
  open,        \* quantity of an order that rests in the book
  placed,      \* quantity submitted, corrected by the amendments
  taken,       \* quantity trades took
  withdrawn    \* quantity that left the book, or individual tracking, untraded

ledgerVars == <<submitted, live, open, placed, taken, withdrawn>>

Amounts == [OrderIds -> Nat]

(* Types, and the shape of the book-keeping: what rests was submitted, and *)
(* only what rests has an open quantity.                                   *)
LedgerTypeOK ==
  /\ submitted \subseteq OrderIds
  /\ live \subseteq submitted
  /\ open \in Amounts /\ placed \in Amounts /\ taken \in Amounts /\ withdrawn \in Amounts
  /\ \A o \in OrderIds : o \notin live => open[o] = 0
  /\ \A o \in OrderIds : o \notin submitted => placed[o] = 0

(* Every lot of every order is accounted for: it trades, it is withdrawn,  *)
(* or it still rests.                                                      *)
Conserved == \A o \in OrderIds : placed[o] = taken[o] + withdrawn[o] + open[o]

LedgerInit ==
  /\ submitted = {} /\ live = {}
  /\ open = [o \in OrderIds |-> 0]
  /\ placed = [o \in OrderIds |-> 0]
  /\ taken = [o \in OrderIds |-> 0]
  /\ withdrawn = [o \in OrderIds |-> 0]

(* An id is submitted once; its quantity rests, or is absorbed by a level  *)
(* that does not track orders, or is nothing.                              *)
Submit(o) ==
  /\ o \in OrderIds \ submitted
  /\ submitted' = submitted \cup {o}
  /\ placed' \in Amounts /\ \A x \in OrderIds \ {o} : placed'[x] = placed[x]
  /\ \/ live' = live \cup {o} /\ open' = [open EXCEPT ![o] = placed'[o]] /\ UNCHANGED withdrawn
     \/ UNCHANGED <<live, open>> /\ withdrawn' = [withdrawn EXCEPT ![o] = placed'[o]]
  /\ UNCHANGED taken

(* A trade takes from resting orders, from none more than it has; only an  *)
(* order with nothing left stops resting.                                  *)
Trade ==
  /\ UNCHANGED <<submitted, placed, withdrawn>>
  /\ taken' \in Amounts
  /\ \A o \in OrderIds : taken'[o] - taken[o] \in 0 .. open[o]
  /\ open' = [o \in OrderIds |-> open[o] - (taken'[o] - taken[o])]
  /\ live' \subseteq live
  /\ \A o \in live \ live' : open'[o] = 0

(* The quantity that rests of one order is replaced.                       *)
Amend(o) ==
  /\ UNCHANGED <<submitted, taken, withdrawn>>
  /\ o \in live
  /\ open' \in Amounts /\ \A x \in OrderIds \ {o} : open'[x] = open[x]
  /\ placed' = [placed EXCEPT ![o] = @ + (open'[o] - open[o])]
  /\ live' \subseteq live
  /\ \A x \in live \ live' : open'[x] = 0

(* Orders are taken out of the book with all they have left.               *)
Withdraw ==
  /\ UNCHANGED <<submitted, placed, taken>>
  /\ live' \subseteq live
  /\ withdrawn' = [o \in OrderIds |->
                     IF o \in live \ live' THEN withdrawn[o] + open[o] ELSE withdrawn[o]]
  /\ open' = [o \in OrderIds |-> IF o \in live \ live' THEN 0 ELSE open[o]]

LedgerNext ==
  \/ \E o \in OrderIds : Submit(o)
  \/ Trade
  \/ \E o \in live : Amend(o)
  \/ Withdraw

LedgerSpec == LedgerInit /\ [][LedgerNext]_ledgerVars
=============================================================================
