SPECIFICATION Spec
CONSTANTS
  None = None
  a = a
  b = b
  r1 = r1
  r2 = r2
  fa = fa
  fb = fb
  v = v
  w = w
  x = x
  CRs <- OneOfEach
  Names <- TwoNames
  Deployments <- EgressRouter
  FacadeOf <- EgressFacades
  EgressGateway = b
  CoreEgressGateway = a
  Specs <- EgressSpecs
  InitialSpecs <- EgressBoth
  Workers = {v, w}
  WorkerKind <- WorkerPerKind
  MaxChanges = 2
  MaxErrors = 1
  MaxRestarts = 1
PROPERTY CoreEgressUndisturbed
