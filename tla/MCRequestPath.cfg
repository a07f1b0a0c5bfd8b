\* A process that refuses its configuration ends: CHECK_DEADLOCK FALSE.
SPECIFICATION Spec
CONSTANTS
    Envs <- MCEnvs
    HttpRequests <- MCHttpRequests
    GrpcCalls <- MCGrpcCalls
    Tokens <- MCTokens
INVARIANTS
    TypeOK
    TargetFromURL
    ActsAsCaller
    WritersHaveRole
    DenialHidesExistence
CHECK_DEADLOCK FALSE
