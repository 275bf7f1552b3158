CONSTANTS
    UserSpecs <- MCUserSpecs
    MaxContainers <- MCMaxContainers
SPECIFICATION Spec
INVARIANT MaxScaleRefTracksSpec
