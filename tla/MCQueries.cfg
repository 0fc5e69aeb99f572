SPECIFICATION QuerySpec
CONSTANTS
  a = a
  b = b
  c1 = c1
  c2 = c2
  p1 = p1
  p2 = p2
  p3 = p3
  i1 = i1
  u1 = u1
  u2 = u2
  CacheScenes <- MCCacheScenes
  Conns <- MCConns
  Sizes <- MCSizes
  MaxResponse = 3
  MaxEntries = 2
  MaxBytes = 3
  Day = 1
  Shards <- MCShards
  AllMessages <- MCMessages
  MaxLimit = 2
  TextScenes <- MCTextScenes
  MaxSnaps = 2
  MaxVersions = 2
INVARIANTS CacheTrue QueriesTrue TextsTrue
SYMMETRY Symmetry
CHECK_DEADLOCK FALSE
