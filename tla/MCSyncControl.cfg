CONSTANTS
    Public = {runtime}
    Private = {atlas}
    Requests = {operator}
    MaxSyncs = 3
    MaxChanges = 2
SPECIFICATION Spec
INVARIANT PrivateNeverDisappears
CHECK_DEADLOCK FALSE
