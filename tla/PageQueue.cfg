CONSTANTS
    Peers <- TwoPeers
    Rows <- TwoRows
    RowsOf <- PeerRows
    MaxOps = 2
    MaxRetries = 1
    UseQueue = TRUE
    None = None
SPECIFICATION FairSpec
INVARIANTS
    ConflictHasWorkflow
    BusyWhileRunning
PROPERTIES
    RowsReplacedOnOrder
    OneReport
    PageHearsBack
