CONSTANTS
    Members <- MCMembers
    MaxLog <- MCMaxLog
    MaxFaults <- MCMaxFaults
    MaxUpdates <- MCMaxUpdates
    None = None
SPECIFICATION SpecH
PROPERTY Refinement
CHECK_DEADLOCK FALSE
