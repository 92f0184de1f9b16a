SPECIFICATION Spec
CONSTANTS
    c1 = c1
    NoUrb = NoUrb
    Clients <- OneClient
    TokenClients <- OneClient
    MaxUrbs = 2
    Results = {"full", "part", "err"}
    Faults = {"submit"}
    MaxErrc = 1
INVARIANT ZeroWhenDone
