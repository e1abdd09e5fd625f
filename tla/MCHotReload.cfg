SPECIFICATION FairSpec
CONSTANT Environments <- MCEnvironments
CHECK_DEADLOCK FALSE
INVARIANTS TypeOK ComponentsAgree NothingOverlooked SettledIsCurrent
PROPERTIES NeverBackwards EventsConverge LastWriteIsLoaded PollSettles
