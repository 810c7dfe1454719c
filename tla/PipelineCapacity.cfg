CONSTANTS
  MinLen = 20
  MaxLen = 1024
  MaxPck <- MCMaxPck
  MaxRecv <- MCMaxRecv
  DgramLens <- MCDgramLens
  Bodies <- MCBodies
  IPs <- MCIPs
  Geo <- MCGeo
  Region = 0

SPECIFICATION Spec

INVARIANT QueueWithinCapacity
