SPECIFICATION FairSpec
CONSTANT Environments <- MCPollOnly
CHECK_DEADLOCK FALSE
PROPERTY Converges
