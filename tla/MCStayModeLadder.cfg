\* One device, the real cap of 3600 seconds; devices answer or fail.
SPECIFICATION KindSpec
CONSTANTS
  Devices = {d1}
  NoDevice = NoDevice
  MaxTimeout = 3600
  Gor = {g1}
  Pubkey = FALSE
  Plugins = FALSE
  Inbound = FALSE
PROPERTIES
  BackoffReachesCap
  FailedIsRetried
