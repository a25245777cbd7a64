SPECIFICATION FairSpec
CONSTANTS
    Absent = Absent
    Malformed = Malformed
    NoFile = NoFile
    Files <- MCFiles
    Envs <- MCEnvs
    Edits <- MCEdits
    ULONG = 1073741824
    NumReactors = 2
INVARIANTS StartupInv PoolsStaffed
PROPERTIES ReloadTakesEffect StartupSettles ShutdownEnds
