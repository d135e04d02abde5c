SPECIFICATION Spec
SYMMETRY Symmetry
CONSTANTS
    s1 = s1
    s2 = s2
    t1 = t1
    t2 = t2
    Sids = {s1, s2}
    Tokens = {t1, t2}
    Threads = {a, b}
    NoKey = NoKey
    NoSid = NoSid
    Unmapped = Unmapped
    BrowserOf <- TwoBrowsers
INVARIANT
    TokenRequestIsRecorded
