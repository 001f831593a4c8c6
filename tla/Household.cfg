SPECIFICATION HouseholdSpec
CONSTANTS
    Subs = {a, b}
    Owners = {a}
    PlexSubs = {a}
    Requests = {r1, r2}
    Invites = {i1}
    Codes = {l1}
    Tokens = {t1, t2}
    MaxUses = 2
    None = None
SYMMETRY MemberSymmetry
INVARIANTS TypeOK OneTokenPerCode TokenOfClaimer
PROPERTIES ImplementsAllowlist AdminRemains RevokedByAdmin RevokeWins
CHECK_DEADLOCK FALSE
