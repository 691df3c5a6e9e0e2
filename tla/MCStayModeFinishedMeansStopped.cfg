\* Two devices, passwords, no plugins.
SPECIFICATION FairSpec
CONSTANTS
  Devices = {d1, d2}
  NoDevice = NoDevice
  MaxTimeout = 2
  Gor = {g1, g2}
  Pubkey = FALSE
  Plugins = FALSE
  Inbound = FALSE
INVARIANT FinishedMeansStopped
