\* One goroutine creating a customer and listing, the controllers running.
CONSTANTS
    Customers <- MCCustomers
    InvalidNames <- MCInvalidNames
    Tags <- MCTags
    LabelKeys <- MCLabelKeys
    Ops <- CreateList
    Procs = {p1}
    MaxRequests = 2
    MaxFaults = 0
SPECIFICATION Spec
INVARIANT ListBestEffort
