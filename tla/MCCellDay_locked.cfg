SPECIFICATION Spec
CONSTANTS
  Detections = {1, 2, 3}
  Campaigns = {1}
  Types = {1, 2}
  Days = {1}
  Recent = {1}
  DayOf <- OneDay
  Window <- InsideSlot
  Expired <- CarvedOut
  Goals = {1, 2}
  Quota0 = 1
  Txs = {t1, t2}
  NoTx = NoTx
  Ops <- LockedOps
  MaxBatch = 2
  MaxOps = 4
INVARIANT TypeOK
INVARIANT AllSettled
INVARIANT WithinQuota
CHECK_DEADLOCK FALSE
