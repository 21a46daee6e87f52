\* gpt_params_parse in the main example against the reference parse
CONSTANTS
  Ex = "MAIN"
  Tokens <- MCTokens3
  Files <- MCFiles
  Inputs <- MCInputs
  Unset = "unset"
  Stoi <- MCStoi
  Dashed <- MCDashed
  HashSplit <- MCHashSplit
  Basename <- MCBasename
SPECIFICATION Spec
INVARIANT TypeOK
INVARIANT ParseOutcomeMatchesRef
INVARIANT ParamsMatchRef
INVARIANT BatchThreadsFollowMain
CHECK_DEADLOCK FALSE
