\* Two terminals, two operators who take over from each other, one device.
SPECIFICATION FairSpec
CONSTANTS
    Conns = {c1, c2}
    Users = {alice, bob}
    Devices = {gate}
    NoDevice = NoDevice
    NoUser = NoUser
    MaxRequests = 4
INVARIANTS TypeOK NoGhostSession ActsAsLastAuthenticated ToldIfBound
PROPERTIES ShiftOkIsOnDuty ServedUnlessStuck
CHECK_DEADLOCK FALSE
