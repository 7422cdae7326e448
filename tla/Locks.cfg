SPECIFICATION FairSpec
CONSTANTS
  None = None
  a = a
  b = b
  r1 = r1
  r2 = r2
  fa = fa
  fb = fb
  v = v
  w = w
  x = x
  CRs <- BothKindsAndMore
  Names <- TwoNames
  Deployments = {r1, fa, fb}
  FacadeOf <- TwoFacades
  EgressGateway = egressGateway
  CoreEgressGateway = coreEgressGateway
  Specs <- MixedSpecs
  InitialSpecs <- ThreeShare
  Workers = {v, w, x}
  WorkerKind <- ThreeWorkers
  MaxChanges = 0
  MaxErrors = 1
  MaxRestarts = 1
INVARIANT LockInv
PROPERTIES LocksImplemented EventuallyQuiescent
