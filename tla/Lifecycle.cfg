\* Two users without captchas, two handlers, every fault; p1 may not be forwarded.
CONSTANTS
  u1 = u1
  u2 = u2
  g1 = g1
  g2 = g2
  Users = {u1, u2}
  NoUser = NoUser
  Goroutines = {g1, g2}
  Nobody = Nobody
  m1 = m1
  p1 = p1
  a1 = a1
  Keys = {m1, p1, a1}
  UserMsgs = {m1, p1}
  TopicMsgs = {a1}
  NoKey = NoKey
  Protected = {p1}
  Screening <- NeverScreened
  Challenges = {}
  CaptchaDuration = 1
  Faults = {"db", "api", "crash"}
  MaxTime = 1
  MaxThreads = 2
  MaxRows = 3
SYMMETRY Symmetry
SPECIFICATION Spec
INVARIANTS IInv TypeOK UniqueUser ThreadOwner MessageIsolation BannedNeverRelayed
PROPERTY PolicyObeyed
