\* Cables change at any moment while a client asks about the AV inputs; two clients register, die
\* and take over each other's slots while two events are sent; the stores beside them.
CONSTANTS
  NHdmi = 2
  Callers = {"b1"}
  Queries = {"av1", "av2"}
  Moving <- MCMoving
  Clients = {"c1", "c2"}
  Events = {"e1", "e2"}
  MaxCalls = 3
  HeadSize = 1
  ContentSize = 2
  AudioSize = 2
  EdidSize = 2
  Keys <- MCKeys
  Names = {"mac"}
  Layouts <- MCLayouts
  MaxLeaks = 1
  MacCallers = {"m1", "m2"}
  MaxWorkers = 3
  Writers = {"w1", "w2"}
  Sections <- MCSections
  ConfigKeys <- MCConfigKeys
  ConfigValues <- MCConfigValues
  Shipped <- MCShipped
  MaxSets = 2
  MaxStarts = 1
SPECIFICATION MCSpec
INVARIANTS
  NothingMissed ClientsServed SavedKeyIsFound OneMacWorker SetIsKept
PROPERTIES EventuallyTold LinkedSlotFreed
\* clients, events and registrations are used up
CHECK_DEADLOCK FALSE
