SPECIFICATION FairSpec
CONSTANTS
  None = None
  c1 = c1
  b1 = b1
  b2 = b2
  i1 = i1
  i2 = i2
  i3 = i3
  i4 = i4
  p = p
  l = l
  Recipients = {l}
  Legacy = {l}
  Concurrency = 1
  Api <- OwnApi
  MaxCallers = 2
  Calls = {c1}
  Batches = {b1, b2}
  Items <- FallbackItems
  To <- FallbackTo
  BatchTo <- FallbackBatchTo
PROPERTIES
  EverythingEnds
