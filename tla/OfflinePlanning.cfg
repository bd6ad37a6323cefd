SPECIFICATION Spec
CONSTANTS
  Cost <- MCCost
  Alignment <- MCAlignment
  Blocks <- MCBlocks
  Executions <- MCExecutions
  Requests <- MCRequests
  Batches <- MCBatches
  Fleets <- MCFleets
  Selections <- MCSelections
  Bisections = 8
  Reserve = 8
  SageReserve = 4
  SageBlock = 4
  RouteBlock = 2
INVARIANTS
  ScheduleIsFeasible
  StatisticsAreExact
  EstimateIsOrdered
  EstimateMirrorsRunner
  PlansFitTheirBudget
  CutsArePartitions
  PartitionIsFastest
  ChoiceIsLeastMemory
PROPERTY EarliestRunsFirst
CHECK_DEADLOCK FALSE
