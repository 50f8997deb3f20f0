CONSTANTS
    FarFuture = 6
    DefaultExpansion = 1
    MaximumExpansion = 2
    u1 = u1
    Users = {u1}
    NoValue = NoValue
    Txns = {t1, t2}
    Names = {n1}
    Comps <- MCComps
    MaxDay = 1
    ExpandOffsets = {2, 3}
    MaxTxnRuns = 2
    MaxOps = 2

SPECIFICATION Spec

INVARIANT TypeOK
INVARIANT IndexMatchesRecord

\* The model stops when every handle has run its transactions; Abort is
\* enabled for every open transaction, so no state short of that is stuck.
CHECK_DEADLOCK FALSE
