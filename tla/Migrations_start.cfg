CONSTANTS
  Starters = {a, j, k}
  Apis = {a}
  Processes = {{a}, {j, k}}
  Files = 3
  Altering = {3}
  a = a
  j = j
  k = k
SPECIFICATION MigrationsSpec
INVARIANTS ReadyHasSchema SomebodySurvives
CHECK_DEADLOCK FALSE
