SPECIFICATION ComputerSpec
CONSTANTS
  SearchSpace <- MCSearchSpace
  PresetFlags <- MCPresetFlags
  Budgets = {0, 3}
  TopK = 1
  Rounds = 2
  Fanout = 2
  BenchArms <- MCBenchArms
  MaxRuntime = 3
  MaxDepth = 1
  MaxCalls = 4
  MaxSessions = 2
  MaxTrouble = 1
  Inputs <- MCInputs
  Limits <- MCLimits
  Operands = {2, 3}
  Beam = 3
  ProbeSteps = 1
  TrainSteps = 1
  Latencies = {0, 7, 50}
  MaxCases = 2
  Disks <- MCDisks
  ArmOrder <- MCArmOrder
  Demand <- MCDemand
  OracleSeeds = {1}
  TestSeeds = {9}
  EpisodeSteps = 2
  Guesses = {5}
  Horizon = 2
  BeamWidth = 2
  ExactBudgets = {1, 6, 8}
  TopCandidates = {0, 1, 2}
  DebateRounds = 2
  ProbeRounds = 2
  ProbesPerRound = 2
  MaxProcedures = 2
  WindowSize = 2
  DoubleTau = 1
  MinEffect = 1
  StepRewards = {0, 1, 3}
  MaxPolicies = 3
INVARIANTS SliceConserves
CHECK_DEADLOCK FALSE
