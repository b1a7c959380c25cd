---------------------------- MODULE MCOrderBook ----------------------------
(* The instance of OrderBook that TLC explores. *)
EXTENDS OrderBook, TLC

(* A snapshot of a feed: an untracked bid, and an ask that the next cleanup*)
(* drops for want of a count.                                              *)
Untracked(q, n) == [total |-> q, count |-> n, tracked |-> FALSE, orders |-> <<>>]

MCSnapshots ==
  {[s \in Sides |-> IF s = "Bid" THEN [p \in {1} |-> Untracked(2, 1)]
                    ELSE [p \in {2} |-> Untracked(1, 0)]]}

(* The ids are interchangeable, and every property is a safety property.   *)
IdSymmetry == Permutations(OrderIds)
=============================================================================
