\* A gated agent with two calls in flight, a direct one, two tools; one id
\* asked on four ticks, two timeouts allowed.
SPECIFICATION MCSpec
CONSTANTS
  Gated = {g1}
  Direct = {d1}
  Tools = {t1, t2}
  Overall = Overall
  Prompts = {1}
  Completions = {1, 2}
  LeastPrompt = 1
  MostPrompt = 1
  MostResponse = 2
  TokensPerCent = 2
  Limits <- MCLimits
  Slots = 2
  Agent = {a1}
  Threshold = 2
  Keep = 1
  MaxTick = 3
  MaxGen = 2
INVARIANTS ToolsAddUp OvershootBounded
PROPERTIES
  TickHoldsBackBriefly
  QuestionsInOrder
  MemoryComplete
CHECK_DEADLOCK FALSE
