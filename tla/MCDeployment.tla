---------------------------- MODULE MCDeployment ----------------------------
(* The analyses and the users that TLC explores. A source of ticks or      *)
(* candles may lack any day but the two it is known by.                    *)
EXTENDS Deployment

Analysis(kind, train, test, step, embargo, anchored, data) ==
  [kind |-> kind, start |-> 0, end |-> 7, train |-> train, test |-> test, step |-> step,
   embargo |-> embargo, anchored |-> anchored, data |-> data]

MCAnalyses ==
  {Analysis(kind, 2, test, step, embargo, anchored, {0, 7} \cup days) :
     kind \in {"candles", "streaming", "params"}, test \in {1, 2}, step \in {1, 2},
     embargo \in {0, 1}, anchored \in BOOLEAN,
     days \in {1 .. 6, {2, 3, 5}, {1, 4, 6}}}

Outcome(sharpe, drawdown) ==
  [sharpe |-> sharpe, drawdown |-> drawdown, winRate |-> 30, profitFactor |-> 0]

MCOutcomes == {Outcome(100, 5), Outcome(0, 20)}

User(capital, position, dailyLoss, leverage) ==
  [capital |-> capital, position |-> position, dailyLoss |-> dailyLoss, leverage |-> leverage]

MCUserConfigs == {User(50, 10, 5, 1), User(60, 30, 30, 5), User(250, 20, 0, 3), User(1000, 30, 90, 4)}

MCOtherMetrics ==
  {[days |-> days, drawdown |-> 5, lowWinRate |-> low, unstable |-> unstable] :
     days \in {0, 9}, low \in BOOLEAN, unstable \in BOOLEAN}
=============================================================================
