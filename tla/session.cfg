SPECIFICATION Spec
CONSTANTS
  Clients = {c1, c2}
  Foreign = {}
  Nobody = Nobody
  MaxClients = 2
  Timeout = 1
  Duplicates = TRUE
  Late = TRUE
  SmallNet = 2
SYMMETRY Symmetry
CONSTRAINT NetBound
INVARIANTS OneSeatEach InputFromSeat
PROPERTIES SeatKept ImplementsSeatLease
