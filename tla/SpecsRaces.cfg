SPECIFICATION Spec
CONSTANTS
  c1 = c1 c2 = c2 w1 = w1 None = None
  sb1 = sb1 sb2 = sb2 cb1 = cb1 cb2 = cb2 cb3 = cb3 cb4 = cb4
  MaxVersion = 2
  Drafts = {"d1"}
  SeedTemplates <- OneSeed
  CaseTemplates <- Single
  DepsOf <- SingleDeps
  Cases = {"k1"}
  Facts = {"f1"}
  SeedBatches = {sb1, sb2}
  CaseBatches = {cb1}
  Callers = {c1, c2}
  Workers = {}
  Unreliable = {c1, c2}
  Calls = {"propose", "approve", "ingest", "revise", "cancel"}
SYMMETRY CallerSymmetry
INVARIANT ActiveHasSeeds
PROPERTY WorkIsConfirmed
