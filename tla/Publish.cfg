SPECIFICATION Spec
CONSTANTS
  p1 = p1  p2 = p2  a1 = a1  r1 = r1  r2 = r2  d1 = d1  d2 = d2
  None = None
  Publishers = {p1, p2}
  Adders = {a1}
  Releases = {d1, d2}
  WithBuild = {p1}
  Outputs = {"o1", "o2"}
  Order <- TwoRegistries
  Primary = r1
  Scenes <- SerialOrReproducible
  MaxTries <- TwoOfOne
SYMMETRY Names
INVARIANTS TagsAreClosed FailuresChangeNothing SuccessIsEverywhere RetryIsNotRefused
PROPERTIES TagsAreImmutable Binding
CHECK_DEADLOCK FALSE
