\* Clients keep off the reserved id.
SPECIFICATION MCSpec
CONSTANTS
    RecIds = {"r1"}
    PlayerIds = {p1, p2}
    Devs = {"dvr0", "dvr1"}
    h1 = h1  h2 = h2  h3 = h3  f1 = f1  f2 = f2  f3 = f3  p1 = p1  p2 = p2
    ShiftDev = "dvr1"
    Handles = {h1, h2}
    Files = {f1, f2}
    Moving = {"recording"}
    TuneFreqs = {1}
    TuneBases = {"QAM", "OFDM", "ISDBT", "ANALOG"}
    PlayIds = {"atsc", "dvb"}
    MediaFiles <- MCFiles
    PacketWords = 6
    InfoWords = 26
    StableSignals = {"A", "B"}
INVARIANTS ShiftFileOpen
PROPERTY NothingLeft
SYMMETRY MCAddresses
