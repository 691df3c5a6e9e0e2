CONSTANTS
  Devices = {d1}
  Workers = {w1}
  Kinds = {"good", "foreign", "nonode", "nocmd", "mistyped", "garbage"}
  MaxConsumers = 2
  MaxSent = 2
SPECIFICATION FairInbound
INVARIANTS TypeOK OnceInOrder AckedIsExecuted ExecutesWhatItSays InboundInv
PROPERTY CommandsAnswered
\* The process ends, by itself or by a panic.
CHECK_DEADLOCK FALSE
