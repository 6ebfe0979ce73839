SPECIFICATION Spec
INVARIANTS
    RunsExact
    ReplicasAgree
    ScoredAsSampled
    RanksExact
PROPERTIES
    TrainingFinishes
CHECK_DEADLOCK FALSE
