\* The process ends: CHECK_DEADLOCK FALSE.
SPECIFICATION Spec
CONSTANTS
    s1 = s1
    s2 = s2
    r1 = r1
    r2 = r2
    Services = {s1, s2}
    RestCalls = {r1, r2}
    GrpcCalls = {g1}
    Conn <- MCConn
    Envs <- MCEnvs
INVARIANTS
    TypeOK
    StoresOutliveHandlers
    NothingLeftOpen
    SendNeverBlocks
PROPERTY
    Stops
CHECK_DEADLOCK FALSE
