\* Two goroutines serving creates, updates and deletes of one customer.
CONSTANTS
    Customers <- MCCustomers
    InvalidNames <- MCInvalidNames
    Tags <- MCTags
    LabelKeys <- MCLabelKeys
    Ops <- WriteOps
    Procs = {p1, p2}
    MaxRequests = 2
    MaxFaults = 0
SPECIFICATION Spec
 
PROPERTY LifecycleRefined
SYMMETRY ProcSymmetry
