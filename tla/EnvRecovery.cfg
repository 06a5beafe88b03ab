SPECIFICATION Spec
CONSTANTS
  Envs = {e0, e1, e2}
  Default = e0
  Slots = 3
  Erased = Erased
  Torn = Torn
  None = None
  Failures = FALSE
INVARIANTS InitRestores
