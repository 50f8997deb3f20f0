CONSTANTS
    FarFuture = 6
    DefaultExpansion = 1
    MaximumExpansion = 2
    Users = {u1}
    NoValue = NoValue
    Days = {0, 1}
    Times = {0, 1, 2, 3, 6, 7}
    FBChoices = {"BUSY", "X-UNLISTED"}

SPECIFICATION Spec

INVARIANT IndexDescribesSeries
 
