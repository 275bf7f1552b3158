CONSTANTS
    UserSpecs <- MCUserSpecs
    MaxContainers <- MCMaxContainers
SPECIFICATION Spec
INVARIANT TypeOK
INVARIANT PodVolumesConsistent
INVARIANT CredentialsResolvable
INVARIANT EventRouting
