SPECIFICATION Spec
CONSTANTS
    s1 = s1
    s2 = s2
    s3 = s3
    Outputs <- MCOutputs
    Setters <- MCThreads
    Target <- MCToMiddle
    Initial <- MCAround
INVARIANTS NoOvershoot Settled
PROPERTIES Returns
CHECK_DEADLOCK FALSE
