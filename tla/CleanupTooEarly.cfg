\* The nightly job and a challenge that has not expired.
CONSTANTS
  u1 = u1
  g1 = g1
  g2 = g2
  Users = {u1}
  NoUser = NoUser
  Goroutines = {g1, g2}
  Nobody = Nobody
  m1 = m1
  a1 = a1
  Keys = {m1, a1}
  UserMsgs = {m1}
  TopicMsgs = {a1}
  NoKey = NoKey
  Protected = {}
  Screening <- AlwaysScreened
  Challenges = {1}
  CaptchaDuration = 1
  Faults = {}
  MaxTime = 2
  MaxThreads = 1
  MaxRows = 1
SPECIFICATION Spec
PROPERTY LiveChallengeKept
