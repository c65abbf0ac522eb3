CONSTANTS
    NumGroups = 2
    PagesPerSBlk = 2
    SecPerVPg = 2
    BufPages = 2
    MaxActive = 1
    Requests <- MCRequests
    Deletable = {0}
    MaxWrites = 3
    MaxLosses = 0
SPECIFICATION Spec
INVARIANT GivenUpNotFlushed
