SPECIFICATION WireSpec
CONSTANTS
  Base = 3
  CmdBanner = 2
  CmdLog = 0
  MaxPayload = 4
  Prefix <- MCPrefix
  AppName <- MCAppName
  Payloads <- MCPayloads
  ChunkSize = 20
  MaxRecords = 2
  MaxConnects = 2
CHECK_DEADLOCK FALSE
INVARIANTS WireTypeOK Framed AllFound NeverRefused
