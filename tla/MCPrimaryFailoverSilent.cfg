CONSTANTS
    Members <- MCMembers
    MaxLog <- MCMaxLog
    MaxFaults <- MCMaxFaults
    MaxUpdates <- MCMaxUpdates
    None = None
SPECIFICATION Spec
PROPERTY NoSilentPromotion
CHECK_DEADLOCK FALSE
