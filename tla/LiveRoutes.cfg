SPECIFICATION FairLiveRoutesSpec
CONSTANTS
    Subs = {v}
    Channels = {a, b}
    Requests = {r1, r2}
    Ids = {i1, i2}
    Sessions = {s1, s2}
    None = None
INVARIANTS TypeOK LeaseCoversProxy
PROPERTIES TeardownKeepsNewer ReplacedProxyEnds UnwantedSessionEnds
CHECK_DEADLOCK FALSE
