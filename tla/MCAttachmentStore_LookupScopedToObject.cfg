CONSTANTS
    Txns = {t1, t2}
    Objs = {o1, o2}
    ObjUid <- MCObjUid
    Names = {n1}
    Data = {d1}
    MaxChunks = 1
    SinkIds = {1, 2}
    MaxTxnRuns = 1
    Listers = {t1}
    NoValue = NoValue

SPECIFICATION Spec

INVARIANT LookupScopedToObject

\* The model stops once every handle has run its transactions and every
\* hook and transport has finished; Abort is enabled for every open
\* transaction, so no state short of that is stuck.
CHECK_DEADLOCK FALSE
