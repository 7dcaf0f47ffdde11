\* Two devices, three connections, one operating thread beside the heartbeat: a
\* reconnect, a heartbeat round and a gate command can all overlap.
SPECIFICATION FairSpec
CONSTANTS
    IPs = {ipA, ipB}
    Threads = {t1}
    HeartBeat = HeartBeat
    Nobody = Nobody
    NoIP = NoIP
    MaxConns = 3
INVARIANTS TypeOK OneClientPerIP ExchangeExclusive
PROPERTIES DeadConnectionDropped OperationsReturn UsesLinesInTurn
