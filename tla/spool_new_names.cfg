SPECIFICATION Spec
CONSTANTS
  light = light
  pump  = pump
  odd   = odd
  mute  = mute
  a = a
  b = b
  Absent  = Absent
  Torn    = Torn
  Nothing = Nothing
  Names    <- MCNames
  Commands <- MCCommands
  Sendable <- MCSendable
  Unmapped <- MCUnmapped
  Overwrites = FALSE
  MaxStops   = 1
  MaxFaults  = 1
INVARIANTS
  NoCommandLost
  BoundedRepetition
PROPERTIES
  EveryCommandSent
  DeliveryKept
