CONSTANTS
  MinLen = 20
  MaxLen = 1024
  MaxPck <- MCMaxPck
  MaxRecv <- MCMaxRecv
  DgramLens <- MCDgramLens
  Bodies <- MCLBodies
  IPs <- MCIPs
  Geo <- MCGeo
  Region = 1
  InitResults <- MCInitLogFails

SPECIFICATION LSpec
CHECK_DEADLOCK FALSE

INVARIANT EmittedFaithful
INVARIANT NoPacketLostAtExit
