CONSTANTS
  h1 = h1  h2 = h2  a1 = a1  a2 = a2  ip1 = ip1  ip2 = ip2  q = q  x = x
  StringFields <- MCStringFields
  PortFields <- MCPortFields
  Required <- MCRequired
  NamesFile = "names_file"
  RoutesFile = "routes_file"
  Chars <- TwoChars
  Quote = q
  RawStrings <- MCRawStrings
  RawPorts <- MCRawPorts
  Names <- TwoNames
  Addrs <- TwoAddrs
  IPs <- TwoIPs
  MaxLines <- MCMaxLines
SPECIFICATION Spec
INVARIANTS TypeOK Usable
PROPERTIES NamesAsWritten RoutesAsWritten
CHECK_DEADLOCK FALSE
