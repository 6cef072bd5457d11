SPECIFICATION Spec
CONSTANTS
  a1 = a1 a2 = a2 a3 = a3 h1 = h1 h2 = h2 w1 = w1 w2 = w2 k1 = k1 None = None
  Items = {1, 2}
  Deps <- ChainDeps
  ResourceOf <- SharedResource
  IntentOf <- OneTemplate
  Resources = {k1}
  Attempts = {a1, a2}
  Requests = {h1, h2}
  Workers = {w1, w2}
  Unreliable = {w1, w2}
  Operators = {"op"}
  MaxOperatorCalls = 2
  OpenBreakerOnChallenge = TRUE
SYMMETRY ProcessSymmetry
INVARIANT LeaseHasRunner
INVARIANT TypeOK
PROPERTY ItemEndsWithItsAttempt
INVARIANT DoneHasCompletion
INVARIANT CompletionIsJudged
INVARIANT OwnAttempt
INVARIANT StartedAfterDeps
INVARIANT ChallengeBlockHasRequest
