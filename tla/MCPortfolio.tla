---------------------------- MODULE MCPortfolio ----------------------------
(* The instances of Portfolio that TLC explores. Prices are multiples of   *)
(* 16, so that the halvings of a cost and of its margin, with a leverage   *)
(* of 2 and at most two lots to a position, come out even.                 *)
EXTENDS Portfolio

MCMultiplier == [s \in Derivatives |-> 2]
=============================================================================
