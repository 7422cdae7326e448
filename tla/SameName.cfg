SPECIFICATION Spec
CONSTANTS
  None = None
  a = a
  b = b
  r1 = r1
  r2 = r2
  fa = fa
  fb = fb
  v = v
  w = w
  x = x
  CRs <- BothKinds
  Names <- OneName
  Deployments = {r1, fa}
  FacadeOf <- OneFacade
  EgressGateway = egressGateway
  CoreEgressGateway = coreEgressGateway
  Specs <- MixedSpecs
  InitialSpecs <- FacadeAndShare
  Workers = {v, w}
  WorkerKind <- WorkerPerKind
  MaxChanges = 0
  MaxErrors = 0
  MaxRestarts = 0
INVARIANT RestartRecreates
