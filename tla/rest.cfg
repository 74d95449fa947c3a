SPECIFICATION FairRestSpec
CONSTANTS
    c1 = c1
    c2 = c2
    v1 = v1
    v2 = v2
    Zero = Zero
    Fields <- AllFields
    Flags = {}
    Values = {v1, v2}
    Defaults <- NoFields
    Given <- Starts
    Partials <- Account
    Callers = {c1, c2}
    Constructor = c1
    Ops = {"authenticate"}
    AuthenticateRetries = 1
    MaxCalls = 2
    MaxTokens = 2
    MaxSets = 1
INVARIANTS RestTypeOK TokenIsTimed ResetForgets
PROPERTIES ExpiredIsDropped
CHECK_DEADLOCK FALSE
