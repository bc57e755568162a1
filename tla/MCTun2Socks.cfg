SPECIFICATION FairSpec
CONSTANTS
    Workers = {worker, psiphon}
    Stoppers = {main}
    worker = worker
    psiphon = psiphon
    main = main
    MaxRuns = 3
INVARIANTS TypeOK OneRun NoStaleTerminate
PROPERTIES FlagReachesRun SeenStopEnds
