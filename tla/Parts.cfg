CONSTANTS
  MaxScans = 2
  ScanKinds <- MCScanKinds
  OnAir <- MCOnAir
  Table <- MCTable
  MaxFound = 3
  Tables <- MCTables
  Alerts <- MCAlerts
  Searchers = {"b1", "b2"}
  MaxTables = 2
  MaxAlerts = 2
  EasInts = 6
  ShippedRows <- MCRows
  Dims = 2
  MaxDowns = 2
  Countries = {"US", "ID"}
  Ranges <- MCRanges
  VideoSettings <- MCVideoSettings
  MaxLayerCalls = 3
  MaxRaised = 3
  AtvFreqs = {1, 2}
  FineAsked <- MCFine
  Users = {"u1", "u2"}
  Saved = {"ParentalControlSwitch", "HDMIEdidVersion2", "SystemSleepTimer"}
  Asked <- MCAsked
  Sources = {0, 5}
  EdidDefault = 1
  FileBytes = 2
  MaxEvents = 2
  MaxTracks = 3
  DataLengths = {0, 1, 32}
  EasCounts = {0, 1, 64}
  Boards <- MCBoards
  EdidVersions = {0, 1}
  ChangedPorts = {4}
  EdidCallers = {"s1", "s2"}
  MaxEdidCalls = 3
SPECIFICATION MCSpec
INVARIANTS
  ScanHandled ReceiverFollows StoredAsFound PsipToldAsSent DatabaseServes
  LayerFollows EventsWhole TunedAsAsked SettingsKept CarriesWholeEvent InputsAgree
CHECK_DEADLOCK FALSE
