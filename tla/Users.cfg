SPECIFICATION UsersSpec
CONSTANTS
    Users = {u, m}
    Monarchs = {m}
    NewIds = {g1, g2, g3}
    Codes = {k1}
    GrantRoles = {"vip"}
    Chains = {c1, c2}
    NoId = NoId
    NoCode = NoCode
    NoUser = NoUser
    MaxEvents = 4
    Requesters = {u}
    Actions = {x}
    Askers = {a1, a2}
    Deciders = {d1, d2}
    NoRequest = NoRequest
    MaxRequests = 3
INVARIANTS TypeOK IdsSeparate CodeLinksOnce LinksMatch RoleFromGrant OneVerdict PendingBounded
PROPERTY AgreementKept
SYMMETRY Symmetric
CHECK_DEADLOCK FALSE
