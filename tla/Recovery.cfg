SPECIFICATION Spec
CONSTANTS
  None = None
  a = a
  b = b
  r1 = r1
  r2 = r2
  fa = fa
  fb = fb
  v = v
  w = w
  x = x
  CRs <- OneOfEach
  Names <- TwoNames
  Deployments <- OneRouter
  FacadeOf <- TwoFacades
  EgressGateway = egressGateway
  CoreEgressGateway = coreEgressGateway
  Specs <- MixedSpecs
  InitialSpecs <- FacadeShares
  Workers = {v, w}
  WorkerKind <- WorkerPerKind
  MaxChanges = 2
  MaxErrors = 1
  MaxRestarts = 1
INVARIANTS TypeOK Provenance RestartConverges
PROPERTIES OwnersKept ConfiguredUnderLock RestartKeepsRouters
