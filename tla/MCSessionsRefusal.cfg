SPECIFICATION Spec
CONSTANTS
    Users = {u1, u2}
    Tabs = {t1, t2}
    MaxSessions = 2
    NoSession = NoSession
    None = None
    t1 = t1
    t2 = t2
    u1 = u1
    u2 = u2
PROPERTIES
    RefusalIsShown
