\* A place for one car besides the customer's, two entrances, three cars.
SPECIFICATION Spec
CONSTANTS
    customer = customer
    a = a
    b = b
    Cars = {customer, a, b}
    VIPs = {customer}
    Entrances = {in1, in2}
    Threads = {t1, t2}
    Terminal = Terminal
    NoCar = NoCar
    Configs <- AllConfigs
    MaxMishaps = 1
INVARIANTS TypeOK OverfullOnlyByOverlap WaitingCarIsListed
PROPERTY LoneWaiterReleased
SYMMETRY Symmetry
CHECK_DEADLOCK FALSE
