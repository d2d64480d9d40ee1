SPECIFICATION FairSpec
CONSTANTS
  Browsers = {b1}
  MaxChanges = 3
  MaxFaults = 2
PROPERTIES
  PublishedCatchesUp
  ShownWhileNotified
