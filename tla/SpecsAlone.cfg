SPECIFICATION FairSpec
CONSTANTS
  c1 = c1 c2 = c2 w1 = w1 None = None
  sb1 = sb1 sb2 = sb2 cb1 = cb1 cb2 = cb2 cb3 = cb3 cb4 = cb4
  MaxVersion = 2
  Drafts = {"d1"}
  SeedTemplates <- OneSeed
  CaseTemplates <- Pipeline
  DepsOf <- PipelineDeps
  Cases = {"k1"}
  Facts = {"f1"}
  SeedBatches = {sb1}
  CaseBatches = {cb1, cb2}
  Callers = {c1}
  Workers = {w1}
  Unreliable = {w1}
  Calls = {"approve", "propose", "ingest", "revise", "cancel"}
INVARIANT StartedAfterDeps
PROPERTY IngestedIsWhole
