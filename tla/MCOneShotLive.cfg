\* Two devices, one with a bad password; every stage, each kind of upload.
SPECIFICATION FairSpec
CONSTANTS
  Devices = {d1, d2}
  Commands = 2
  Configs <- FullConfigs
  BadPassword = {d1}
  Selected = {d1, d2}
PROPERTIES
  Finishes
