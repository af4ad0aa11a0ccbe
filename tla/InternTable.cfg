SPECIFICATION Spec
CONSTANTS
  a = a
  b = b
  c = c
  Threads = {t1, t2}
  Values = {a, b, c}
  HashOf <- MCHashOf
  ShardOf <- MCShardOf
  CacheOf <- MCCacheOf
  Slots = {s1, s2, s3}
  MaxKey = 3
  NoRef = NoRef
  NoKey = NoKey
  NoThread = NoThread
SYMMETRY Symmetry
INVARIANT HashConsed
PROPERTY ReturnsTheValue
