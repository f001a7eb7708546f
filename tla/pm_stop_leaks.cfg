SPECIFICATION Spec
CONSTANTS
    s1 = s1
    s2 = s2
    s3 = s3
    Generates = {g1, g2}
    Stops = {t1}
    Servers <- MCServers
    Failing = {}
    Rows = 2
    Overlap = FALSE
    Trusting = FALSE
    Patience = {FALSE}
    First = First
PROPERTY StopTerminates
CHECK_DEADLOCK FALSE
