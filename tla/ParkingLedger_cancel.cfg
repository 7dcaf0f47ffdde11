SPECIFICATION Spec
CONSTANTS
    pS = pS
    pW = pW
    pT = pT
    pB = pB
    pU = pU
    pN = pN
    Plates = {pS}
    Read = {pS}
    Kind <- StoredOnly
    InitBalance <- StoredBalance
    ExitModes = {"ChargeRelease"}
    Fees = {3}
    HttpThreads = {h1}
    Terminals = {u1}
    NidIsKey = TRUE
    MaxPasses = 2
    MaxCharges = 2
    MaxFailures = 0
INVARIANT CancelledQuoteCostsNothing
CHECK_DEADLOCK FALSE
