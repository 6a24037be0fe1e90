SPECIFICATION MCSpec
CONSTANTS
    Handler = {h1, h2}
    MaxDeliver = 2
    MaxChanges = 3
    User = {u1, u2}
    Badge = {b1, b2}
    Paint = {}
    EmoteSet = {e1}
    Topic = {t1}
    Limit = 1
    Lag = 2
    UserCache = 1
    ObjectCache = 1
    MaxVersion = 2
SYMMETRY Symmetry
CONSTRAINTS Kept Followed
INVARIANTS SearchFollows ConnectionHolds
CHECK_DEADLOCK FALSE
