\* One goroutine, no failed calls: a delete repeated after a successful delete.
CONSTANTS
    Customers <- MCCustomers
    InvalidNames <- MCInvalidNames
    Tags <- MCTags
    LabelKeys <- MCLabelKeys
    Ops <- AllOps
    Procs = {p1}
    MaxRequests = 3
    MaxFaults = 0
SPECIFICATION Spec
INVARIANT DeleteIdempotent
