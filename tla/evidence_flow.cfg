CONSTANTS
  Engines = {"llama.cpp", "tinygrad", "vllm"}
  Default = "llama.cpp"
  Ledgered = {"vllm"}
  Unnamed = {"tinygrad"}
  Clocks <- TwoClocks
  MaxCommands = 3
SPECIFICATION Spec
INVARIANTS TypeOK ReportTells AdviceIsSound WitnessOfArms OldRolesExplained DifferExplained
CHECK_DEADLOCK FALSE
