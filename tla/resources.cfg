CONSTANTS
  Off = Off
  Pair = {x, y}
  Lone = {z}
  Regions = {{0}, {1, 2}, {2, 3}}
  Contents <- TwoContents
  LonePorts = {"sun_os", "ecos", "vxworks", "win32"}
  NumEntries = 2
  BufSize = 4
  Texts <- TwoTexts
  MaxText = 5
  Base = 4
  AddressTexts <- NineTexts
  Single = {s}
  CrowdedPorts = {"linux_appl", "linux_drv"}
  Addresses = {"a"}
  NumFds = 3
  NumConns = 1
  Backlog = 1
  MaxWords <- WordsOf
SPECIFICATION Spec
INVARIANTS
  RegionsKept
  FilesKept
  AddressesRead
  SocketsKept
PROPERTY LoadsFile
SYMMETRY Symmetry
CHECK_DEADLOCK FALSE
