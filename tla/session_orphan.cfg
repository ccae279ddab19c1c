SPECIFICATION LiveSpec
CONSTANTS
  Clients = {c1}
  Foreign = {}
  Nobody = Nobody
  MaxClients = 1
  Timeout = 1
  Duplicates = FALSE
  Late = FALSE
PROPERTIES NoOrphan
