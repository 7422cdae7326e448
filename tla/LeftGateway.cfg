SPECIFICATION Spec
CONSTANTS
  None = None
  a = a
  b = b
  r1 = r1
  fa = fa
  fb = fb
  u = u
  CRs <- OneOfEach
  Routers = {r1}
  FacadeOf <- Facades
  CoreEgressGateway = coreEgressGateway
  Specs <- LeavingSpecs
  InitialSpecs <- BothShare
  Foreign = u
  ForeignService = r1
  Informers <- TwoInformers
  Collections <- ThreeCollections
  MaxChanges = 1
  MaxFaults = 2
INVARIANTS RestartRepairs
