SPECIFICATION MCSpec
CONSTANTS
    None = None
    User = {u1, u2, u3}
    Account = {a1, a2}
    Session = {s1, s2}
    Call = {c1}
    Emote = {e1, e2}
    Alias = {a, b}
    Name = {n1, n2}
    MaxCap = 2
    u1 = u1
    u2 = u2
    c1 = c1
    c2 = c2
    b1 = b1
    root = root
    staff = staff
    helper = helper
    other = other
    Everybody = Everybody
    MaxTime = 1
    Editor = {d1, d2}
    Instant = {d2}
    Owner = Owner
    Admin = Admin
    Change = {c1, c2}
    Person = {u1, u2}
    Role = {root, staff, helper, other}
    Ban = {b1}
    Request = {c1, c2}
    Effects = {{"NoPermissions", "MemoryHole", "NoAuth"}}
    Granted = {{"ManageEditors"}, {"ManageProfile"}}
SYMMETRY Symmetry
CONSTRAINTS Unmisled FewRights FewInvitations
INVARIANTS AccountsHold SetHolds
    RolesHold BansBite
PROPERTY EditorsHold
CHECK_DEADLOCK FALSE
