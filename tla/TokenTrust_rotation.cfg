SPECIFICATION Spec
CONSTANTS
  Second = 2
  MaxDuration = 15
  MaxTTL = 4
  DefaultTTL = 2
  Requests <- MCRequests
  Documents <- MCDocuments
  ForeignTokens <- MCForeignTokens
  MaxKeys = 2
  MaxTokens = 1
  MaxTime = 5
INVARIANTS TypeOK ReadyHasKeys AcceptedWasMinted GrantIsUnambiguous LivesAsAsked GoodTokenPasses
PROPERTY KeysCatchUp
