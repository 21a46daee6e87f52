\* postprocess_cpu_params overwrites a --prio-batch given without -tb
CONSTANTS
  Ex = "MAIN"
  Tokens <- MCTokens3
  Inputs <- MCInputs
  Files <- MCFiles
  Unset = "unset"
  Stoi <- MCStoi
  Files <- MCFiles
  Dashed <- MCDashed
  HashSplit <- MCHashSplit
  Basename <- MCBasename
SPECIFICATION Spec
INVARIANT PrioBatchHonoured
CHECK_DEADLOCK FALSE
