\* Two alerts of a chain of three steps.
CONSTANTS
    Metric = {level, failures}
    Windowed = {failures}
    ChainLen = 3
    MaxAlerts = 2
    MaxEdits = 1
    MaxFaults = 1
SPECIFICATION FairSpec
INVARIANTS OneActiveAlert EveryStepTold ResolutionFollowsFiring LateStepIsLast WindowedAlertFires
PROPERTIES PersistentConditionFires ClearedConditionResolves
