SPECIFICATION Spec
CONSTANTS
  Detections = {1}
  Campaigns = {1, 2}
  Types = {1, 2}
  Days = {1}
  Recent = {1}
  DayOf <- OneDay
  Window <- InsideSlot
  Expired <- NeverExpired
  Goals = {1, 2}
  Quota0 = 1
  Txs = {t1, t2}
  NoTx = NoTx
  Ops <- SharedOps
  MaxBatch = 1
  MaxOps = 3
PROPERTY UnrejectTouchesOneCell
CHECK_DEADLOCK FALSE
