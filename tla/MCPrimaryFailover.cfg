CONSTANTS
    Members <- MCMembers
    MaxLog <- MCMaxLog
    MaxFaults <- MCMaxFaults
    MaxUpdates <- MCMaxUpdates
    None = None
SPECIFICATION FairSpec
PROPERTY ReplicasFollowOnSuccess
PROPERTY Convergence
CHECK_DEADLOCK FALSE
