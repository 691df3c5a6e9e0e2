\* Two devices, passwords, plugins and inbound commands on; the backoff
\* climbs 2, 3, 4.
SPECIFICATION Spec
CONSTANTS
  Devices = {d1, d2}
  NoDevice = NoDevice
  MaxTimeout = 4
  Gor = {g1, g2}
  Pubkey = FALSE
  Plugins = TRUE
  Inbound = TRUE
SYMMETRY Symmetry
INVARIANTS
  TypeOK
  OneCollectorPerDevice
  OwnEntry
  StartHasWorker
  NoExitWithoutSignal
  StoppedForGood
  StayInv
PROPERTIES
  BackoffStep
  ImplementsSessions
