SPECIFICATION Spec
CONSTANTS
  None = None
  a = a
  b = b
  r1 = r1
  fa = fa
  fb = fb
  u = u
  CRs <- OneOfEach
  Routers = {r1}
  FacadeOf <- Facades
  CoreEgressGateway = coreEgressGateway
  Specs <- MovingSpecs
  InitialSpecs <- AAlone
  Foreign = u
  ForeignService = r1
  Informers <- TwoInformers
  Collections <- ThreeCollections
  MaxChanges = 2
  MaxFaults = 1
INVARIANTS TypeOK RestartCompletes NothingLeftBehind FailuresRetried
PROPERTIES ForeignServiceKept OwnersMerged
