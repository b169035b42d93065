SPECIFICATION HSpec
CONSTANTS
  Pairs = 19
  Step = 9
  Octets = 2
  Burst = 4
  Scrambler <- MCScrambler
  Headers <- MCHeaders
INVARIANTS
  TypeOK
  LeastMetric
  TracedIsNearest
  HeaderRead
CHECK_DEADLOCK FALSE
