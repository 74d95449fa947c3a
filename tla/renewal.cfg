SPECIFICATION FairRenewalSpec
CONSTANTS
    u1 = u1
    Users = {u1}
    Callers <- Frames
    Constructor <- First
    MaxDepth = 3
    Ops = {"authenticate", "getToken", "reset"}
    AuthenticateRetries = 1
    v1 = v1
    Zero = Zero
    Fields <- AllFields
    Flags = {"AutoAuthenticate"}
    Values = {v1}
    Defaults <- NoFields
    Given <- OnlyURL
    MaxCalls = 2
    MaxTokens = 2
INVARIANTS RenewalTypeOK NestingIsPaid RenewalDialsAnew
PROPERTIES ListenersReturn
CHECK_DEADLOCK FALSE
