SPECIFICATION Spec
CONSTANTS
    IPs = {ipA, ipB}
    Threads = {t1}
    HeartBeat = HeartBeat
    Nobody = Nobody
    NoIP = NoIP
    MaxConns = 3
PROPERTY HeartbeatRemovesOnlyFailed
