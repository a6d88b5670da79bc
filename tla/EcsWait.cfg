CONSTANTS
    Definitions <- MCDefinitions
    MaxRevision = 2
    MaxLooks = 2
    Tasks = {t1, t2, t3}
    NoTask = none
    TaskDefinitions <- MCTaskDefinitions
    MaxAttempts = 2
SPECIFICATION MCFairSpec
CHECK_DEADLOCK FALSE
PROPERTIES
    DeployedIsThere
