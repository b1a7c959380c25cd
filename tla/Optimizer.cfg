CONSTANTS
  Genomes = {g1, g2}
  Scores <- MCScores
  PopulationSize = 3
  Generations = 6
  Patience = 2
  FullGenerations = 1
  MaxRate = 2
  Folds = 2
  Sharing = TRUE
  Crowded = {}
  Complexity = 1
  Candidates = {c1, c2, c3}
  Directions <- MCDirections
  Points <- MCPoints
  Members = 4
  Lengths = {0, 2}
SPECIFICATION MCSpec
PROPERTIES LeadersSurvive ExtremesSurvive
CHECK_DEADLOCK FALSE
