SPECIFICATION FairSpec
CONSTANTS
    r1 = r1
    r2 = r2
    NoRun = NoRun
    Runs <- OneRun
    Foreign <- Steering
    MaxNet = 2
    MaxFaults = 1
    MaxSubmits = 0
PROPERTIES
    SettledRunIsShown
    ReportArrives
