SPECIFICATION Spec
CONSTANTS
    s1 = s1
    s2 = s2
    s3 = s3
    Generates = {g1, g2}
    Stops = {t1, t2}
    Servers <- MCServers
    Failing = {s3}
    Rows = 2
    Overlap = FALSE
    Trusting = TRUE
    Patience = {TRUE, FALSE}
    First = First
INVARIANT TypeOK
INVARIANT StatusIsTrue
INVARIANT OneRowPerRun
PROPERTY KeepsSending
CHECK_DEADLOCK FALSE
