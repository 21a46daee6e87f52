\* parse_prompt: the switch cases below the benchmark tables' 20 entries are dead
CONSTANTS
  Ex = "MAIN"
  Tokens <- MCTokens3
  Inputs <- MCInputs
  Files <- MCFiles
  Unset = "unset"
  Stoi <- MCStoi
  Files <- MCFiles
  Dashed <- MCDashed
  HashSplit <- MCHashSplit
  Basename <- MCBasename
SPECIFICATION Spec
INVARIANT PromptCasesReachable
CHECK_DEADLOCK FALSE
