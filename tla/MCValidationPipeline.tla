------------------------ MODULE MCValidationPipeline ------------------------
(* The requests that TLC explores. Regimes come in up to three runs after  *)
(* two bars that have no label yet.                                        *)
EXTENDS ValidationPipeline

Labels == {Low, Medium, High}

Runs(n, first, second, a, b, c) ==
  [k \in 0 .. n - 2 |-> IF k < 2 THEN Unknown ELSE IF k < first THEN a
                                 ELSE IF k < second THEN b ELSE c]

Regimes(n) ==
  {Runs(n, first, second, a, b, c) :
     first \in {4, 9}, second \in {9, 13}, a \in {Low, High}, b \in Labels, c \in {Low, Medium}}

Unlabelled(n) == [k \in 0 .. n - 2 |-> Unknown]

Job(n, days, count, gap, regimes, schema, folds) ==
  [bars |-> n, days |-> days, windows |-> count, gapBars |-> gap, regimes |-> regimes,
   schema |-> schema, folds |-> folds]

MCJobs ==
  {Job(19, 450, count, 4, regimes, FALSE, 0) : count \in {0, 2, 3}, regimes \in Regimes(19)}
    \cup {Job(16, 0, 3, gap, regimes, TRUE, 0) :
            gap \in {0, 4}, regimes \in {Runs(16, 4, 9, High, Low, Medium), Runs(16, 9, 13, Low, High, Low)}}
    \cup {Job(20, 450, count, 4, Unlabelled(20), TRUE, folds) : count \in {1, 3}, folds \in {0, 1, 2}}
    \cup {Job(n, 0, 2, 1, Unlabelled(n), TRUE, 0) : n \in {1, 9}}
=============================================================================
