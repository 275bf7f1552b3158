CONSTANTS
    Replicas <- MCReplicas
    MaxPolls <- MCMaxPolls
    MaxFaults <- MCMaxFaults
SPECIFICATION Spec
PROPERTY NotReadyOnlyIfUnhealthy
