SPECIFICATION ServicesSpec
CONSTANTS
  Windows = {11, 12}
  Launches = {1, 2}
  Budgets = {0, 1}
  Devices = {"usb", "phone"}
  Mtp = {"phone"}
  MaxChanges = 1
  MaxChoices = 1
  MaxChannel = 2
  Tasks = {"t1", "t2"}
  Plays <- MCPlays
  MaxSlips = 1
  Plain = {"jf"}
  Scoped = {"abs"}
  Calls = {"r1", "r2"}
  MaxRows = 2
  MaxMishaps = 1
  Producers = {"a", "b"}
  Plans <- StagingPlans
  MaxTracks = 2
  MaxBytes = 2
INVARIANTS StagingSafe EntriesStand  ServersSafe ScrobblesSafe 
PROPERTIES LateArrivalYields EveryoneServed
CHECK_DEADLOCK FALSE
