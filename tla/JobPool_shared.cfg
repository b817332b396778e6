SPECIFICATION FairSpec
CONSTANTS
    DlThread = {d1, d2}
    Client = {c1}
    Main = main
    Job = {j1, j2}
    ApiJob = {a1, a2, a3}
    ExitJob = exit
    NoJob = nojob
    MaxNested = 1
    MaxTimeouts = 1
INVARIANTS
    TypeOK
    NoJobTwice
    PoolsKeepTheirJobs
    PostFailsOnlyWhileExiting
    ApiFetchNeverFails
PROPERTIES
    PostedJobsComeBack
CHECK_DEADLOCK FALSE
