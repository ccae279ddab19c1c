SPECIFICATION LiveSpec
CONSTANTS
  Peers = {"stream", "input", "simStream", "simInput"}
  Hosts = {h1, h2}
  Foreign = {h2}
  Nobody = Nobody
  Timeout = 1
  ConfigPeriod = 2
  MaxSlices = 1
PROPERTIES PausesWhenGone StreamFlows InputFlows ConsoleLossNoticed LinkRestored
