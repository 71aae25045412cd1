CONSTANTS
  Cases = {1, 2, 3}
  Groups = {1, 2}
  GroupOf <- TwoGroups
  Blocks <- FirstBlocksSecond
  Versions = {1, 2}
  MaxBatchKills = 2
  MaxHarm = 1
  Tasks = {1, 2}
  Bodies = {b1, b2}
  MaxAttempts = 2
  MaxKills = 2
  MaxLost = 1

SPECIFICATION MCSpec
INVARIANTS
  CompleteHasResult
  ResumeEqualsUninterrupted
  CompleteIsBacked
  BudgetOverRuns
PROPERTIES
  ProgressKept
  RunReturns
  SettledStaysSettled
  RunEnds
