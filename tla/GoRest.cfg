SPECIFICATION Spec
CONSTANTS
    Callers = {c1}
    Tokens = {t1, t2}
    NoToken = NoToken
    Torn = Torn
    NoHeader = NoHeader
    NotSetting = NotSetting
    MaxServed = 2
INVARIANTS HeaderRight DoneOnce
