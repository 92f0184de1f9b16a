SPECIFICATION FairSpec
CONSTANTS
    c1 = c1
    NoUrb = NoUrb
    Clients <- OneClient
    TokenClients <- OneClient
    MaxUrbs = 2
    Results = {"full", "part", "err"}
    Faults = {"submit", "poll", "unplug", "close"}
    MaxErrc = 1
INVARIANT TypeOK
INVARIANT BuffersReturned
INVARIANT ReferencesLive
PROPERTY ImplementsLoan
PROPERTY CloseEnds
PROPERTY TransactionReturns
PROPERTY CancelEnds
PROPERTY NoCancelUnasked
