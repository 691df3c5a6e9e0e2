CONSTANTS
  b1 = b1
  b2 = b2
  p1 = p1
  w1 = w1
  Parsers = {p1, p2}
  NetParsers = {}
  BadKeys = {}
  Brokers = {b1, b2}
  BrokerOf <- TwoBrokers
  Workers = {w1}
  MaxReplies <- TwoAndOne
  MaxFaults = 1
SPECIFICATION Spec
INVARIANT PluginOnOwnBroker
