SPECIFICATION HeadersSpec
CONSTANTS
  Parent <- TheParent
  Number <- TheNumber
  Root = "root"
  Confirmations = 2
  MaxCrashes = 0
  Null = Null
  Undefined = Undefined
CHECK_DEADLOCK FALSE
PROPERTY ConfirmedStays
