CONSTANTS
    Pages = {"batchUpload"}
    MaxTransfers = 1
    MaxDrops = 1
    MaxFiles = 1
SPECIFICATION FairSpec
PROPERTY
    ConnectionErrorHandled
CHECK_DEADLOCK FALSE
