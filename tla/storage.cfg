SPECIFICATION Spec
CONSTANTS
  Types = {"PUSH"}
  Payloads <- MCPayloads
  Bytes <- MCBytes
  MARKER = 171
  MaxCells = 7
  MaxAppends = 2
  MaxOpens = 3
  MaxFaults = 1
  MaxLosses = 1
  WalFiles <- MCWalFiles
  Damages = {"type", "plen", "crc", "byte", "header"}
INVARIANTS
  PromisedDurable
  
  
  CutOnlyDamage

  
CHECK_DEADLOCK FALSE
