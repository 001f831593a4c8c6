SPECIFICATION FairRegistrySpec
CONSTANTS
    s1 = s1
    s2 = s2
    s3 = s3
    f1 = f1
    f2 = f2
    SessionIds = {s1, s2, s3}
    Feeds = {f1, f2}
    FeedOf <- MCFeedOf
    Children = {c1, c2, c3}
    Capture = Capture
    Cap = 1
    Idle = 3
    RelaunchFloor = 1
    DeadLifetime = 2
    StrikesToTag = 2
INVARIANTS TypeOK UpstreamCap SocketsCounted NoLeakedSlot
PROPERTIES StopIsFinal StrikeJustified ImplementsPool DrainingEmpties IdleSessionEnds
