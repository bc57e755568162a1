SPECIFICATION FairSpec
CONSTANTS
    Starters = {worker, fetcher}
    Others = {}
    worker = worker
    fetcher = fetcher
    MaxJobs = 2
INVARIANTS TypeOK NoOrphanJob NoOrphanTask RestartNotRefused
PROPERTY StopEndsTask
