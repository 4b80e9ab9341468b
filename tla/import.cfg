SPECIFICATION FairSpec
CONSTANTS
  p = p
  q = q
  m = m
  n = n
  Paths = {p, q}
  NarFiles = {m, n}
  Chunks = 2
  MetadataPermits = 1
  NarFetches = {0, 1, 2}
  BatchSize = 1
  MaxImportPaths = 1
INVARIANTS TypeOK MirrorIsWhole NoRequestAfterCleanup OnlyTrustedImports EndsAsReported
PROPERTIES ImportEnds
CHECK_DEADLOCK FALSE
