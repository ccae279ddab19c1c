SPECIFICATION LiveSpec
CONSTANTS
  Clients = {c1, old}
  Foreign = {old}
  Nobody = Nobody
  MaxClients = 1
  Timeout = 1
  Duplicates = FALSE
  Late = FALSE
PROPERTIES Joins SeatReclaimed HostLossNoticed
