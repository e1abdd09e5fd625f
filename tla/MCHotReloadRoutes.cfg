SPECIFICATION Spec
CONSTANT Environments <- MCEventsOnly
CHECK_DEADLOCK FALSE
INVARIANT RoutesAgree
