SPECIFICATION Spec
INVARIANTS
    RunnerMatchesJobs
    OptionsHonoured
    StreamExact
    EndsReadable
    HistoryExact
PROPERTIES
    EveryConnectionCloses
CHECK_DEADLOCK FALSE
