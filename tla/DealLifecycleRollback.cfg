CONSTANTS
  Callers = {c1, c2}
  Nothing = Nothing
  MaxFailWrites = 0
SPECIFICATION DealSpec
PROPERTY
  AcknowledgedTakesEffect
