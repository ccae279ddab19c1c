SPECIFICATION WireSpec
CONSTANTS
  Base = 16
  Magic = 4660
  NameLen = 3
  MaxPlayers = 2
  MaxSlice = 2
  MaxLength = 60
INVARIANTS RoundTrip NoWildRead
