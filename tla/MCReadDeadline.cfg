\* The documented default, half of it, and no timeout at all.
CONSTANTS
  Setting = {0, 30, 60}
SPECIFICATION Spec
CHECK_DEADLOCK FALSE
INVARIANT DeadlineIsConfigured
