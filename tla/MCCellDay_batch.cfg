SPECIFICATION Spec
CONSTANTS
  Detections = {1, 2, 3, 4}
  Campaigns = {1}
  Types = {1}
  Days = {1, 2}
  Recent = {1, 2}
  DayOf <- EvenDays
  Window <- InsideSlot
  Expired <- NeverExpired
  Goals = {1, 2}
  Quota0 = 1
  Txs = {t1, t2}
  NoTx = NoTx
  Ops <- BatchOps
  MaxBatch = 2
  MaxOps = 2
INVARIANT NoLockCycle
CHECK_DEADLOCK FALSE
