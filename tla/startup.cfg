SPECIFICATION Spec
CONSTANTS
  Segments <- MCSegments
  Buckets <- MCBuckets
  Names <- MCNames
  Contents = {c0}  Empty = c0
  Keys <- MCKeys
  UploadIds = {u1}
  NoKey = NoKey  NoContent = NoContent  NoId = NoId  NoBucket = NoBucket
  CipherDigest = CipherDigest
  Fields <- MCFields
  Texts <- MCTexts
  Unset = Unset
  DisableValues = {"", "false"}
  StartedWith <- MCSettings
  Failures = TRUE
INVARIANTS
  StartupInv
  ServesChecked
  MappingObeyed
  ExportersShutDown
PROPERTIES
  StartsOrStops
