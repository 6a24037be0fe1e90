SPECIFICATION MCSpec
CONSTANTS
    s3 = s3
    update = update
    any = any
    Nobody = Nobody
    Sub = {s1, s2, s3}
    MaxQueue = 4
    Req = {r1, r2}
    None = None
    Error = Error
    MaxVersion = 2
CONSTANTS
    TopicOf <- MCTopicOf
    Keys <- MCKeys
INVARIANTS HoldersHear EmptyEntriesLeave
PROPERTIES SubscribeReturns RequestsAnswered
CHECK_DEADLOCK FALSE
