\* Three goroutines, the least for two to be waiting while a third is counted.
CONSTANTS
  MaxPages = 4
  MaxStations = 2
SPECIFICATION FairSpec
INVARIANTS AllOrNothing NoSendOnClosed
PROPERTIES EverythingEnds
