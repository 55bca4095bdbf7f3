CONSTANT MaxInFlight = 2
SPECIFICATION FairSpec
INVARIANTS
    TypeOK
    TokenAgreement
    RenewalScheduled
    ExpiredIsOver
PROPERTIES
    LoginSettles
    LoginIsTried
