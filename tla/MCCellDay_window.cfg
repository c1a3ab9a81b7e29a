SPECIFICATION Spec
CONSTANTS
  Detections = {1, 3}
  Campaigns = {1, 2}
  Types = {1}
  Days = {1}
  Recent = {1}
  DayOf <- OneDay
  Window <- InsideSlot
  Expired <- NeverExpired
  Goals = {1, 2}
  Quota0 = 1
  Txs = {t1, t2}
  NoTx = NoTx
  Ops <- WindowOps
  MaxBatch = 1
  MaxOps = 2
INVARIANT WithinQuota
CHECK_DEADLOCK FALSE
