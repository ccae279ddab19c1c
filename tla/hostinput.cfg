SPECIFICATION Spec
CONSTANTS
  Remote = {1}
  ClockSpace = 20
  InputTimeout = 4
  HostLag = 2
  SessionLag = 1
  Idle = 12
PROPERTIES BundleFresh BundleTimely
