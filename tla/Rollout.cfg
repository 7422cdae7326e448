SPECIFICATION FairSpec
CONSTANTS
  None = None
  NoImage = NoImage
  g = g
  v1 = v1
  v2 = v2
  Gateways = {g}
  Images = {v1, v2}
  InitialImage = v1
  MaxEvents = 2
INVARIANTS TypeOK StatusTrue ImagesInSync
PROPERTIES ObservedWasApplied EventuallyReported
