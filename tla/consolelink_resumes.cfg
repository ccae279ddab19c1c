SPECIFICATION SteadySpec
CONSTANTS
  Peers = {"stream"}
  Hosts = {h1}
  Foreign = {}
  Nobody = Nobody
  Timeout = 2
  ConfigPeriod = 2
  MaxSlices = 1
PROPERTIES StreamResumes
