\* Reports below and above the minimum, capped, smoothed and ramped up; few
\* coins, so that the rounding of every share matters.
SPECIFICATION SpecRewards
CONSTANTS
  Nodes = {n1, n2, n3}
  PaymentPeriod = 2
  Freshness = 1
  GrowthCapPercent = 50
  SmoothingPeriods = 3
  RampUpPeriods = 2
  MinBytes = 3
  Precision = 10
  Bytes = {2, 4}
  Deposits = {5}
  MaxPool = 6
SYMMETRY Symmetry
 
PROPERTY DustOnly
