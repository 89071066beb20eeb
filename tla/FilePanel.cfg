CONSTANTS
    top = top
    sub = sub
    a = a
    Folders <- MCFolders
    Parent <- MCParent
    Names <- MCNames
    Files <- MCFiles
    Order <- MCOrder
    Root = Root
    Missing = Missing
    NoPath = NoPath
    MaxRequests = 1
    MaxUploads = 1
SPECIFICATION Spec
INVARIANTS
    ListIsOfCurrentPath
    SelectionShown
    LinksMatchSelection
    FilesLandWhereChosen
CHECK_DEADLOCK FALSE
