\* A charged and a white-list exit, a white-listed plate, a taxi, a bicycle and an
\* unrecognised plate; two camera threads.
SPECIFICATION Spec
CONSTANTS
    pS = pS
    pW = pW
    pT = pT
    pB = pB
    pU = pU
    pN = pN
    Plates = {pW, pT, pB, pU}
    Read = {pW, pT, pB, pU}
    Kind <- FreeKind
    InitBalance <- FreeBalance
    ExitModes = {"ChargeRelease", "WhiteListRelease"}
    Fees = {0, 1}
    HttpThreads = {h1, h2}
    Terminals = {}
    NidIsKey = FALSE
    MaxPasses = 3
    MaxCharges = 3
    MaxFailures = 1
INVARIANTS NoPhantomInside OpenedOnlyAfterRecorded
SYMMETRY HttpSymmetry
CHECK_DEADLOCK FALSE
