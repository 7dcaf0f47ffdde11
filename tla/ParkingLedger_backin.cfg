SPECIFICATION Spec
CONSTANTS
    pS = pS
    pW = pW
    pT = pT
    pB = pB
    pU = pU
    pN = pN
    Plates = {pW}
    Read = {pW}
    Kind <- WhiteOnly
    InitBalance <- WhiteBalance
    ExitModes = {"ChargeRelease"}
    Fees = {0}
    HttpThreads = {h1}
    Terminals = {}
    NidIsKey = TRUE
    MaxPasses = 3
    MaxCharges = 2
    MaxFailures = 0
PROPERTY BackInRestoresEntry
CHECK_DEADLOCK FALSE
