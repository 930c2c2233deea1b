CONSTANTS
    MaxProbes = 1
    Infos <- MCInfos
    MaxIssued = 2
    Absent = Absent
    Torn = Torn
SPECIFICATION FairNodeSpec
INVARIANTS TypeOK AuthOutlivesCaddy NothingLeftBehind PairOnDisk RenewedIsServed
PROPERTY StartAndCloseEnd
