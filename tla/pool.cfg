SPECIFICATION FairSpec
CONSTANTS
    Downloads = {d1, d2, d3}
    d1 = d1
    d2 = d2
    d3 = d3
    Workers = 2
    Sizes = {1, 3}
    MaxAttempts = 2
    Timeouts = TRUE
    NoClient = NoClient
    NoDownload = NoDownload
INVARIANTS
    PoolSafe
    NobodyWaits
PROPERTY
    DownloadsEnd
CHECK_DEADLOCK FALSE
