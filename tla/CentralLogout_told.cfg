SPECIFICATION FairSpec
CONSTANTS
    g1 = g1
    k1 = k1
    k2 = k2
    c1 = c1
    Threads = {a, b}
    Tgts = {g1}
    Tokens = {k1, k2}
    NoTgt = NoTgt
    NoToken = NoToken
    TicketOf <- FirstTicket
    ClientTokens = {c1}
    ClientTokenOf <- SameClient
    FrontChannel = {}
    Ssm = {k2}
    CmeRetryCnt = 2
PROPERTIES
    ServicesGetTold
