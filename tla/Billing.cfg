\* Requests side by side and one after another, with every cache there is.
SPECIFICATION Spec
CONSTANTS
  Attempts = {a1, a2}
  UserQuotas = {2}
  TokenQuota = 1
  PreCosts = {0, 1}
  Costs = {0, 2}
  TrustFactor = 1
  UnlimitedQuota = FALSE
  RedisEnabled = TRUE
  BatchUpdateEnabled = TRUE
  MaxFaults = 1
INVARIANTS TypeOK  TokenPaysToo BooksBalance
SYMMETRY Symmetry
