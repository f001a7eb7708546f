--------------------------- MODULE MCPmScheduler ---------------------------
EXTENDS PmScheduler

CONSTANTS s1, s2, s3
MCServers == <<s1, s2, s3>>
=============================================================================
