CONSTANTS
    Txns = {t1, t2}
    Objs = {o1}
    ObjUid <- MCObjUid
    Names = {n1}
    Data = {d1}
    MaxChunks = 1
    SinkIds = {1}
    MaxTxnRuns = 1
    Listers = {t1}
    NoValue = NoValue

SPECIFICATION FairSpec

PROPERTY OrphanBytesReclaimed

\* The model stops once every handle has run its transactions and every
\* hook and transport has finished.
CHECK_DEADLOCK FALSE
