SPECIFICATION CodecsSpec
CONSTANTS
  ByteBits = 2
  MAX_OUT = 80
  N4 = 2
  N6 = 5
  Pton <- MCPton
  Encoded <- MCEncoded
  Path <- MCPath
  Bytes64 <- MCBytes64
  Text64 <- MCText64
  Ip <- MCIp
  Port <- MCPort
CHECK_DEADLOCK FALSE
INVARIANTS
  DecodedInRounds
  PathResolved
  Base64Canonical
  PrefixMatch
  AddressOrder
  PortRoundTrip
