\* Request and answer exchanges, lost sessions and failed uploads; the workflow stops once completed.
SPECIFICATION Spec
CONSTANTS
    Program <- Exchanges
    ChunksPerDoc = 2
    MaxDocs = 9
    MaxFailures = 3
CHECK_DEADLOCK FALSE
INVARIANTS TypeOK OneDocumentPerExchange UploadsAreWhole OutputsReachHandler
