SPECIFICATION FairSpec
CONSTANTS
  Urls = {u1}
  MaxHeight = 2
  HeadsCap = 1
  ProbeRetryMax = 1
  RobinRange = 2
  Guests = {g1, g2}
  capacity = 4
  Faulty = TRUE
PROPERTIES
  ShutsDown
  HeadsAreTaken
CHECK_DEADLOCK FALSE
