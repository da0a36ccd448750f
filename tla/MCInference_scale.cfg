\* The scores scaled as the script scales them.
CONSTANTS
  vocab_size = 5
  n_embd = 4
  n_head = 2
  n_layer = 2
  max_context = 4
  P = 13
  Exp <- MCExp
  Erf <- MCErf
  Sqrt <- MCSqrt
  Sin <- MCSin
  Cos <- MCCos
  Scale <- MCScale
  Checkpoints <- MCCheckpoints
  Faults <- MCFaults
  Prompts <- MCPrompts
  NoText = NoText
  Budgets = {0, 9}
  MAX_TOKENS = 3
  MAX_REQUESTS = 2
SPECIFICATION Spec
INVARIANTS MatchesScript
CHECK_DEADLOCK FALSE
