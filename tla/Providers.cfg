SPECIFICATION Spec
CONSTANTS
  Vendors = {"anthropic", "openai", "local"}
  Whole = 2
  MaxCalls = 3
  MaxAttempts = 4
  MaxDelay = 3
  MaxTotal = 7
  MaxRequest = 2
  RetryAfters = {4}
INVARIANTS
  CallsAreAsEmitted
  AttemptsInTime
  ReasoningIsReplayed
