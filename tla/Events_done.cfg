SPECIFICATION Spec
CONSTANTS
    s3 = s3
    update = update
    any = any
    Nobody = Nobody
    Sub = {s1, s2, s3}
    MaxQueue = 4
CONSTANTS
    TopicOf <- MCTopicOf
    Keys <- MCKeys
INVARIANTS BlocksUntilDone
CHECK_DEADLOCK FALSE
