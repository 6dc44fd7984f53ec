\* Looks for a player deleted under the message thread.
SPECIFICATION Spec
CONSTANTS
    RecIds = {"r1"}
    PlayerIds = {p1}
    Devs = {"dvr0", "dvr1"}
    h1 = h1  h2 = h2  h3 = h3  f1 = f1  f2 = f2  f3 = f3  p1 = p1  p2 = p2
    ShiftDev = "dvr1"
    Handles = {h1, h2, h3}
    Files = {f1, f2}
INVARIANT PlayUpdateReachesPlayer
