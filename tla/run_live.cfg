SPECIFICATION FairSpec
PROPERTIES StopLands SilentRunsSettle WronglyFailedReturns LimitPauseEnds
CHECK_DEADLOCK FALSE
