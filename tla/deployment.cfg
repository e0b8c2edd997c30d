SPECIFICATION Spec
CONSTANTS
    Conns = {q1}
    Jobs = {compose, op}
    NoJob = NoJob
    Compose = compose
    Commands <- MCCommands
INVARIANTS
    DeploymentTypeOK
    PoolOutlivesRequests
    NeverForced
    PromptBodyAnswered
    CleanVersionIsTrue
PROPERTIES
    AppStartsOnSchema
    StopEnds
