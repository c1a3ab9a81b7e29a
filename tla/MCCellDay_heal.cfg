SPECIFICATION FairSpec
CONSTANTS
  Detections = {1, 2}
  Campaigns = {1, 2}
  Types = {1}
  Days = {1}
  Recent = {1}
  DayOf <- OneDay
  Window <- InsideSlot
  Expired <- NeverExpired
  Goals = {1, 2}
  Quota0 = 1
  Txs = {t1, t2}
  NoTx = NoTx
  Ops <- HealedOps
  MaxBatch = 1
  MaxOps = 3
PROPERTY Converges
CHECK_DEADLOCK FALSE
