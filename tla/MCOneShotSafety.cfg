\* Two devices, two commands, every configuration.
SPECIFICATION Spec
CONSTANTS
  Devices = {d1, d2}
  Commands = 2
  Configs <- AllConfigs
  BadPassword = {}
  Selected = {d1, d2}
SYMMETRY Symmetry
INVARIANTS
  TypeOK
  NobodyWritesLater
  ArchiveHasAll
  ReplyKept
  OneShotInv
