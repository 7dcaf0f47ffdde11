SPECIFICATION FairSpec
CONSTANTS
    Conns = {c1}
    Users = {alice, bob}
    Devices = {gate}
    NoDevice = NoDevice
    NoUser = NoUser
    MaxRequests = 4
PROPERTY RequestsAnswered
CHECK_DEADLOCK FALSE
