SPECIFICATION Spec
CONSTANTS
    DownCap = 1
    UpCap = 2
    DeviceCap = 1
    AgentBatch = 1
    EngineBatch = 1
INVARIANT NobodyStranded
INVARIANT DownloadIsLossless
PROPERTY PumpsProgress
