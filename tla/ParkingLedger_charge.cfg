\* A charged exit, a stored-value customer whose balance (2) covers a fee of 1
\* but not of 3, one camera thread and one terminal thread that charge
\* concurrently, and one failing statement, or one plate corrected by the
\* operator to that of a car that is no customer's, anywhere.
SPECIFICATION Spec
CONSTANTS
    pS = pS
    pW = pW
    pT = pT
    pB = pB
    pU = pU
    pN = pN
    Plates = {pS, pN}
    Read = {pS}
    Kind <- StoredOrNot
    InitBalance <- StoredOrNotBalance
    ExitModes = {"ChargeRelease"}
    Fees = {1, 3}
    HttpThreads = {h1}
    Terminals = {u1}
    NidIsKey = TRUE
    MaxPasses = 3
    MaxCharges = 3
    MaxFailures = 1
INVARIANTS TypeOK NeverOvercharged OpenedOnlyAfterRecorded RecordedEntryLeaves
CHECK_DEADLOCK FALSE
