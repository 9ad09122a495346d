SPECIFICATION HostSpec
CONSTANTS
  KeyCount = 3
  HeadCount = 0
  SideCount = 1
  Colors <- MCColors
  Black = "black"
  MaxLeds = 2
  Timeout = 1
  Packets <- MCPackets
  ChunkLeds = 2
  ShutdownColor = "black"
  Backlog = 0
  Pictures <- MCPictures
INVARIANTS HostTypeOK Faithful NothingRefused
