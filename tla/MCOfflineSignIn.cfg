SPECIFICATION Spec
CONSTANTS
    Users = {u1, u2}
    NoUser = NoUser
    Writes = {w1, w2}
    Tabs = {t1}
    Runs = {k1, k2}
    MaxExecuted = 2
    u1 = u1
    u2 = u2
    w1 = w1
    w2 = w2
    t1 = t1
    k1 = k1
    k2 = k2
SYMMETRY Symmetry
PROPERTIES
    SurvivesSignIn
