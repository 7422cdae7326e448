SPECIFICATION Spec
CONSTANTS
  None = None
  i = i
  j = j
  CRs <- ThreeCRs
  IngressNames = {i, j}
  Unnamed = Unnamed
  Declarations <- Declared3
  Initially <- Starting
  PoliciesOf <- GrpcPolicies
  Systems <- EitherKind
  MaxChanges = 2
  MaxFaults = 1
INVARIANTS TypeOK RestartServes RestartCleans NothingOrphaned
PROPERTIES StandingKept
