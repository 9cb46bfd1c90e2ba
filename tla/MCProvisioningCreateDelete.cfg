\* Two goroutines, one creating and one deleting the same customer.
CONSTANTS
    Customers <- MCCustomers
    InvalidNames <- MCInvalidNames
    Tags <- MCTags
    LabelKeys <- MCLabelKeys
    Ops <- CreateDelete
    Procs = {p1, p2}
    MaxRequests = 1
    MaxFaults = 0
SPECIFICATION Spec
INVARIANT VisibleInstanceIsComplete
