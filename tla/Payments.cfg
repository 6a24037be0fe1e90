SPECIFICATION MCSpec
CONSTANTS
    Gift = {p1, p2}
    GiftLength = {1, 2}
    MaxTime = 2
    MaxChanges = 2
    Product = {p1, p2}
    u1 = u1
    r1 = r1
    g1 = g1
    b1 = b1
    User = {u1}
    Role = {r1}
    Grant = {g1}
    Item = {b1}
    Group = group
    Links <- FewLinks
    MaxRank = 2
    Handler = {h1, h2}
    Redemption = {x1, x2, x3}
    Uses = 3
    Count = 2
SYMMETRY Symmetry
CONSTRAINTS Few OneChanges
INVARIANTS PeriodsFollow AgeCountsOnce BenefitsFollow CodesHold CacheFollows
CHECK_DEADLOCK FALSE
