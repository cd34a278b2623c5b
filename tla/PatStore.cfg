SPECIFICATION FairSpec
CONSTANTS
    Tokens = {t1, t2}
    None = None
    Clients = {c1, c2}
    Startup = Startup
INVARIANTS
    TypeOK
    AtMostOneActive
    PageKnowsItsUser
PROPERTIES
    ImplementsRegister
    NewPatTakesOver
