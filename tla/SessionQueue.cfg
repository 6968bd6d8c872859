SPECIFICATION MCSpec
CONSTANTS
  Goroutines = {g1, g2, g3}
  Topics = {t1, t2}
  Lengths = {1, 3}
  ByteSizeLimit = 2
  MaxPush = 3
INVARIANTS BytesAccounted DeliveredInOrder 
PROPERTY CallsReturn
