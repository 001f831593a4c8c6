SPECIFICATION LiveRoutesSpec
CONSTANTS
    Subs = {v}
    Channels = {a, b}
    Requests = {r1, r2}
    Ids = {i1, i2, i3}
    Sessions = {}
    None = None
PROPERTY RetuneOneSocket
CHECK_DEADLOCK FALSE
