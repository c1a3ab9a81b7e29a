SPECIFICATION Spec
CONSTANTS
  Detections = {1, 3}
  Campaigns = {1, 2}
  Types = {1}
  Days = {1}
  Recent = {1}
  DayOf <- OneDay
  Window <- InsideSlot
  Expired <- NeverExpired
  Goals = {1, 2}
  Quota0 = 1
  Txs = {t1}
  NoTx = NoTx
  Ops <- MovingOps
  MaxBatch = 1
  MaxOps = 4
INVARIANT AllSettled
CHECK_DEADLOCK FALSE
