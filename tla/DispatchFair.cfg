SPECIFICATION FairSpec
CONSTANTS
  a1 = a1 a2 = a2 a3 = a3 h1 = h1 h2 = h2 w1 = w1 w2 = w2 k1 = k1 None = None
  Items = {1, 2, 3}
  Deps <- ForkDeps
  ResourceOf <- SharedResource
  IntentOf <- OneTemplate
  Resources = {k1}
  Attempts = {a1, a2, a3}
  Requests = {h1, h2}
  Workers = {w1}
  Unreliable = {}
  Operators = {}
  MaxOperatorCalls = 0
  OpenBreakerOnChallenge = TRUE
PROPERTY ReadyIsServed
PROPERTY AttemptsEnd
