SPECIFICATION Spec
CONSTANTS
  a1 = a1 a2 = a2 a3 = a3 h1 = h1 h2 = h2 w1 = w1 w2 = w2 k1 = k1 None = None
  Items = {1}
  Deps <- FlatDeps
  ResourceOf <- NoResource
  IntentOf <- OneTemplate
  Resources = {k1}
  Attempts = {a1}
  Requests = {h1}
  Workers = {w1}
  Unreliable = {}
  Operators = {"op"}
  MaxOperatorCalls = 1
  OpenBreakerOnChallenge = TRUE
PROPERTY JobMovesLegal
