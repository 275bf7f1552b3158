CONSTANTS
    Replicas <- MCReplicas
    MaxPolls <- MCMaxPolls
    MaxFaults <- MCMaxFaults
SPECIFICATION FairSpec
INVARIANT TypeOK
PROPERTY Convergence
PROPERTY StatusProtocol
