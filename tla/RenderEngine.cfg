\* Renders of one or two calls, with secretGetter set at startup (to the
\* stub or a resolver) and replaced between renders.
CONSTANTS
    Objects = {"a", "b"}
    Weights <- MCWeights
    MaxItems = 2
    Templates <- MCTemplates
    InitGetters = {"stub", "server"}
    ConcurrentSetter = FALSE
    None = None
SPECIFICATION Spec
 
INVARIANT WeightedExpansion
