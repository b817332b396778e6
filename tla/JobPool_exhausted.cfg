SPECIFICATION Spec
CONSTANTS
    DlThread = {d1, d2}
    Client = {c1}
    Main = main
    Job = {j1, j2, j3}
    ApiJob = {a1, a2}
    ExitJob = exit
    NoJob = nojob
    MaxNested = 1
    MaxTimeouts = 0
INVARIANTS
    FetchNeverFails
CHECK_DEADLOCK FALSE
