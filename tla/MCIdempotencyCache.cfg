SPECIFICATION Spec
CONSTANTS
  Keys = {a, b, c}
  MaxSize = 2
  Ttl = 1
  MaxAttempts = 2
  MaxOrder = 4
INVARIANTS
  CacheSound
PROPERTIES
  ImplementsWindow
