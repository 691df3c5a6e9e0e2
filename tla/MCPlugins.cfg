CONSTANTS
  b1 = b1
  b2 = b2
  p1 = p1
  w1 = w1
  Parsers = {p1, p2, p3, p4}
  NetParsers = {p3, p4}
  BadKeys = {p4}
  Brokers = {b1}
  BrokerOf <- OneBroker
  Workers = {w1, w2}
  MaxReplies <- TwoAndOne
  MaxFaults = 1
SPECIFICATION Spec
SYMMETRY Symmetry
INVARIANTS TypeOK OnceInOrder LostOnlyWithReason DroppedOnlyWithReason
  LeaksOnlyWhenOverlapped QuietBrokerNoCrash 
 
