SPECIFICATION Spec
CONSTANTS
  Callers = {worker, feedback, reconciler}
  MaxSupportedRetryAfter = 3
  MissingRateLimitDelay = 1
SYMMETRY Symmetry
INVARIANTS PausesAreKept NoEarlyRequest
