SPECIFICATION RulesSpec
CONSTANTS
    OldCalls = 3
    MaxCalls = 2
    MaxRules = 3
    MaxLoss = 1
    Tables = {0, 1}
    Flows = {1}
    MaxMsgs = 3
    Stages = {0, 1}
    MaxSends = 3
INVARIANTS
    MatchAsAsked
    
    StatesAsStored
    
CHECK_DEADLOCK FALSE
