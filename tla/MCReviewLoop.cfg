SPECIFICATION FairSpec
CONSTANTS
  MaxCalls = 3
  MaxConcurrent = 2
  PipeCapacity = 1
  MaxEvidence = 1
  MaxResponse = 2
  HasTimeout = TRUE
  MaxTurnCalls = 2
  MaxScripts = 1
INVARIANTS RunCodeIsHonest EvidenceIsCharged ConversationIsWellFormed
PROPERTIES NoToolAfterExhaustion CancellationIsGenuine ReviewReturns
CHECK_DEADLOCK FALSE
