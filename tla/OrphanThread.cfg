\* A user terminated or banned from the General topic.
CONSTANTS
  u1 = u1
  g1 = g1
  g2 = g2
  Users = {u1}
  NoUser = NoUser
  Goroutines = {g1, g2}
  Nobody = Nobody
  m1 = m1
  a1 = a1
  Keys = {m1, a1}
  UserMsgs = {m1}
  TopicMsgs = {a1}
  NoKey = NoKey
  Protected = {}
  Screening <- NeverScreened
  Challenges = {}
  CaptchaDuration = 1
  Faults = {}
  MaxTime = 1
  MaxThreads = 2
  MaxRows = 2
SPECIFICATION Spec
INVARIANT OneThreadPerUser
