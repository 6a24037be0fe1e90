SPECIFICATION FairSpec
CONSTANTS
    c1 = c1
    Client = {c1, c2, c3}
    Locked = {c1, c2}
    HasEvents = {c1, c2}
CONSTANTS
    MaxTries <- MCMaxTries
INVARIANTS AppliedOnce OkMeansDone PublishedIsCommitted EventsFollowCommits
PROPERTIES CallReturns
CHECK_DEADLOCK FALSE
