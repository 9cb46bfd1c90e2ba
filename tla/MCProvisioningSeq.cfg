\* One goroutine: requests one after another, with one failed API call.
CONSTANTS
    Customers <- MCCustomers
    InvalidNames <- MCInvalidNames
    Tags <- MCTags
    LabelKeys <- MCLabelKeys
    Ops <- AllOps
    Procs = {p1}
    MaxRequests = 4
    MaxFaults = 1
SPECIFICATION Spec
INVARIANT TypeOK
INVARIANT VisibleInstanceIsComplete
PROPERTY DeleteEventuallyCleans
PROPERTY LifecycleRefined
