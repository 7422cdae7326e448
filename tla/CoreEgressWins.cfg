SPECIFICATION Spec
CONSTANTS
  None = None
  a = a
  b = b
  r1 = r1
  r2 = r2
  fa = fa
  fb = fb
  v = v
  w = w
  x = x
  CRs <- OneOfEach
  Names <- TwoNames
  Deployments <- EgressRouter
  FacadeOf <- EgressFacades
  EgressGateway = b
  CoreEgressGateway = a
  Specs <- EgressSpecs
  InitialSpecs <- EgressAlone
  Workers = {v, w}
  WorkerKind <- WorkerPerKind
  MaxChanges = 1
  MaxErrors = 0
  MaxRestarts = 0
INVARIANT CoreEgressWins
