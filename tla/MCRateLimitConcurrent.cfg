CONSTANTS
    p1 = p1
    p2 = p2
    i1 = i1
    i2 = i2
    Procs <- TwoProcs
    IPs <- OneIP
    Limit = 2
    Window = 2
    MaxTime = 3
    MaxRequests = 4
SPECIFICATION Spec
INVARIANT CountedAreAdmitted
SYMMETRY ProcSymmetry
