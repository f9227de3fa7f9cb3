SPECIFICATION Spec
CONSTANTS
  i1 = i1  i2 = i2
  f1 = f1  f2 = f2  f3 = f3  f4 = f4
  k1 = k1  k2 = k2
  c0 = c0  c1 = c1  c2 = c2  c3 = c3
  u1 = u1  u2 = u2
  Segments <- MCSegments
  Buckets <- MCBuckets
  Names <- MCNames
  Contents = {c0, c1, c2, c3}  Empty = c0
  Keys = {k1, k2}
  UploadIds = {u1}
  NoKey = NoKey  NoContent = NoContent  NoId = NoId  NoBucket = NoBucket
  CipherDigest = CipherDigest
  Instances = {i1, i2}
  Flows = {f1, f2}
  ClientCalls <- OneResumable
  Mapping <- SameMapping
  EncryptDisabled = {}
  QueryRoundTrip <- MCQueryRoundTrip
  InitialStores <- EmptyStore
  KmsFailures = FALSE  GcsFailures = FALSE  DiskFailures = FALSE
  Compression = FALSE  MaxCrashes = 0
  Absent = Absent  NoObject = NoObject  NoFile = NoFile  BadFile = BadFile
  NoAsk = NoAsk  Nothing = Nothing  Refused = Refused
  NoWrite = NoWrite  NoCall = NoCall  NoInstance = NoInstance
INVARIANTS
  FirstPutSucceeds
