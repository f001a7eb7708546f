SPECIFICATION Spec
CONSTANTS
    MaxSessions = 3
    Messages = {m1}
    Tries = 2
    None = None
INVARIANT TypeOK
INVARIANT NeverStranded
INVARIANT CalmIsSent
PROPERTY LinkHeals
PROPERTY SendReturns
CHECK_DEADLOCK FALSE
