\* A worker without and one with a profile of a provider, one manager.
CONSTANTS
  Workers = {w1, w2}
  Providers = {w2}
  Managers = {m1}
  Creator = raiser
  Nobody = nobody
SPECIFICATION ComplaintSpec
PROPERTY OwnTasksOnly
CHECK_DEADLOCK FALSE
